---- MODULE Spec2Model ----
(***************************************************************************)
(* occam-api: the write-behind cache (db/redis/cache.rs, macros.rs), the   *)
(* streaming providers and their batched fan-out (services/providers),     *)
(* and the subscription-set optimizer (services/optimization.rs).          *)
(*                                                                         *)
(* Strings are sequences of character codes, so that Display and           *)
(* to_lowercase are computed and not assumed.                              *)
(***************************************************************************)
EXTENDS Integers, Sequences, FiniteSets, TLC

None == "None"

\* No message in the writer's hands; no entry under a key of the store.
NoMsg == [id |-> 0, key |-> <<>>, value |-> None, ttl |-> 0]
NoEntry == [value |-> None, ttl |-> 0]

\* ------------------------------------------------------------------------
\* Bounds of the model
\* ------------------------------------------------------------------------

\* Messages ever offered to the writer channel in one behaviour.
MaxMsgs == 3
\* Cache clones (holders of write_tx) alive at once.
MaxClones == 2
\* Titles an optimization request can name.
NumTitles == 2
\* Messages the availability calls may offer to the writer channel.
MaxFetchMsgs == 2
\* Upstream calls the legacy availability service may still make this month.
UsageHeadroom == 2
\* Title ids one availability batch can name.
MaxBatch == 3
\* search_titles calls made one after the other.
MaxSearches == 2

\* ------------------------------------------------------------------------
\* Strings, CacheKey and its Display
\* ------------------------------------------------------------------------

\* str::to_lowercase on one ASCII character code.
LowerChar(c) == IF c >= 65 /\ c <= 90 THEN c + 32 ELSE c

\* A to_lowercase that keeps the case.
ToLowercaseKeepingCase(s) == s

\* str::to_lowercase.
ToLowercase(s) == [i \in 1..Len(s) |-> LowerChar(s[i])]

\* "search:", "avail:", "imdb2wm:" prefixes, as the first letters that tell
\* them apart followed by ':' (58).
PrefixSearch == <<115, 58>>
PrefixAvail == <<97, 58>>
PrefixImdb2wm == <<105, 58>>

TitleSearch(q) == [kind |-> "TitleSearch", arg |-> q]
Availability(id) == [kind |-> "Availability", arg |-> id]
ImdbToWatchmode(imdb) == [kind |-> "ImdbToWatchmode", arg |-> imdb]

\* impl Display for CacheKey: the wire key.
DisplayKey(k) ==
    CASE k.kind = "TitleSearch" -> PrefixSearch \o ToLowercase(k.arg)
      [] k.kind = "Availability" -> PrefixAvail \o k.arg
      [] k.kind = "ImdbToWatchmode" -> PrefixImdb2wm \o k.arg

\* The IMDB id strings "tt1" and "7", and a Watchmode id.
ImdbTt1 == <<116, 116, 49>>
ImdbSeven == <<55>>
WatchmodeSeven == 7

\* enum TitleId.
Imdb(s) == [kind |-> "Imdb", imdb |-> s, wm |-> 0]
Watchmode(n) == [kind |-> "Watchmode", imdb |-> <<>>, wm |-> n]

RECURSIVE Digits(_)
\* Display of a u64: its decimal digits.
Digits(n) == IF n < 10 THEN <<48 + n>> ELSE Digits(n \div 10) \o <<48 + (n % 10)>>

RECURSIVE ParseU64(_)
\* str::parse::<u64> of a string of decimal digits.
ParseU64(s) ==
    IF s = <<>> THEN 0
    ELSE 10 * ParseU64(SubSeq(s, 1, Len(s) - 1)) + (s[Len(s)] - 48)

\* impl Display for TitleId: the inner value, without its variant.
DisplayId(t) == IF t.kind = "Imdb" THEN t.imdb ELSE Digits(t.wm)

\* Title ids the availability calls are made with.
FetchIds == {Imdb(ImdbTt1), Imdb(ImdbSeven), Watchmode(WatchmodeSeven)}

\* Cache keys the availability calls can touch.
FetchKeys ==
    {Availability(DisplayId(t)) : t \in FetchIds}
        \cup {ImdbToWatchmode(s) : s \in {ImdbTt1, ImdbSeven}}

\* Keys and values the producers of the writer scenarios enqueue: the
\* searches "IN", "In" and "up".
WriterKeys ==
    {TitleSearch(<<73, 78>>), TitleSearch(<<73, 110>>), TitleSearch(<<117, 112>>)}
WriterValues == {"a", "b"}

\* Queries search_titles is called with: "In", "IN" and " ".
SearchQueries == {<<73, 110>>, <<73, 78>>, <<32>>}
WriterTtl == 60

\* ------------------------------------------------------------------------
\* State
\* ------------------------------------------------------------------------

VARIABLES
    queue,        \* write channel: Seq of CacheWriteMessage
    chanSignal,   \* shutdown channel (capacity 1): number of buffered signals
    handle,       \* CacheWriterHandle: "held", "used" (shutdown called), "dropped"
    senders,      \* live Cache clones, each holding a write_tx
    wpc,          \* writer task position
    cur,          \* message the writer is writing, or NoMsg
    pendingWrites,\* cache_writer_task's pending_writes
    store,        \* remote store: wire key -> [value, ttl] or NoEntry
    mainpc,       \* main(): "serving", "stopping", "served", "exited"
    nextId,       \* messages offered so far (ghost)
    accepted,     \* messages the channel accepted, in order (ghost)
    beforeSig,    \* ids accepted before shutdown() sent its signal (ghost)
    attempts,     \* write attempts in order: Seq of [id, ok] (ghost)
    sigSeen,      \* the writer took the shutdown branch on a real signal (ghost)
    atSignal,     \* messages accepted by then, -1 before (ghost)
    optRole,      \* optimizer: how the request lists each title
    optAvail,     \* optimizer: what the availability batch holds for each title
    optCost,      \* optimizer: streaming_services cost of each service id
    optPicks,     \* optimizer: the solver's answer at each weight (ghost)
    optResp,      \* optimizer: result of optimize_services, NoResponse before
    fProv,        \* availability call: "sa", "wm", "legacy", or None when idle
    fHad,         \* availability call: the store held a StreamingAvailability
                  \* under the requested id when the call was made (ghost)
    fId,          \* availability call: the requested TitleId
    fpc,          \* availability call: position
    fStage,       \* which cached! of the call is running: "resolve", "avail"
                  \* or "search"
    fKey,         \* CacheKey of the running cached!
    fWm,          \* watchmode_id the call resolved (0 before)
    fApi,         \* legacy service: the availability call_api returned
    fTrace,       \* what the call did so far: Seq of events (ghost)
    fResult,      \* what the call returned, NoResult before
    apiUsage,     \* legacy service: the monthly api_usage counter of the store
    searched,     \* search_titles calls so far: Seq of [prov, query, present
                  \* (wire keys in the store at the cache read), upstream
                  \* (requests sent), result] (ghost)
    bImpl,        \* batch: "provider" (trait default) or "service" (legacy)
    bIds,         \* batch: the requested ids
    bTasks,       \* batch: one entry per spawned worker
    bNext,        \* batch: index of the task the collector awaits next
    bResults,     \* batch: results
    bErrors,      \* batch: errors
    bResp,        \* batch: what fetch_availability_batch returned
    bFinished,    \* batch: the workers in the order they ended (ghost)
    hResult,      \* route handler: the AppResult it returned, NoHandlerResult before
    hResp,        \* route handler: the HTTP response sent, NoHttpResponse before
    gServices,    \* in-memory API: the Vec<StreamingService> given to Optimizer
    gPrefs,       \* in-memory API: AppStateInner.user_preferences
    gAdds,        \* in-memory API: the add_title calls made, in order (ghost)
    gResult,      \* in-memory API: what Optimizer::optimize returned
    qpc           \* legacy service: position of each batch worker in call_api

cacheVars == <<queue, chanSignal, handle, senders, wpc, cur, pendingWrites, store,
               mainpc, nextId, accepted, beforeSig, attempts, sigSeen, atSignal>>

optVars == <<optRole, optAvail, optCost, optPicks, optResp>>

fetchVars == <<fProv, fHad, fId, fpc, fStage, fKey, fWm, fApi, fTrace, fResult, apiUsage,
               searched>>

batchVars == <<bImpl, bIds, bTasks, bNext, bResults, bErrors, bResp, bFinished>>

httpVars == <<hResult, hResp>>

greedyVars == <<gServices, gPrefs, gAdds, gResult>>

quotaVars == <<qpc>>

vars == <<cacheVars, optVars, fetchVars, batchVars, httpVars, greedyVars, quotaVars>>

WireKeys == {DisplayKey(k) : k \in WriterKeys \cup FetchKeys}

\* Cache::new: channels created, the writer task spawned, one Cache and one
\* handle returned; main then serves.
CacheInit ==
    /\ queue = <<>>
    /\ chanSignal = 0
    /\ handle = "held"
    /\ senders = 1
    /\ wpc = "select"
    /\ cur = NoMsg
    /\ pendingWrites = 0
    /\ store = [w \in WireKeys |-> NoEntry]
    /\ mainpc = "serving"
    /\ nextId = 0
    /\ accepted = <<>>
    /\ beforeSig = {}
    /\ attempts = <<>>
    /\ sigSeen = FALSE
    /\ atSignal = -1

\* The writer task still owns its receivers.
WriterAlive == wpc \notin {"stopped", "aborted"}

\* ------------------------------------------------------------------------
\* Producers
\* ------------------------------------------------------------------------

\* CacheWriteMessage built by set_in_background.
Message(id, k, v, ttl) == [id |-> id, key |-> DisplayKey(k), value |-> v, ttl |-> ttl]

\* Cache::set_in_background: serialise, build the message, send it on the
\* unbounded channel; a send error (receiver gone) is logged only.
SetInBackground(k, v, ttl) ==
    /\ senders > 0
    /\ mainpc \in {"serving", "stopping"}
    /\ nextId < MaxMsgs
    /\ nextId' = nextId + 1
    /\ IF WriterAlive
         THEN /\ queue' = Append(queue, Message(nextId + 1, k, v, ttl))
              /\ accepted' = Append(accepted, Message(nextId + 1, k, v, ttl))
              /\ beforeSig' = IF handle = "held" THEN beforeSig \cup {nextId + 1}
                              ELSE beforeSig
         ELSE UNCHANGED <<queue, accepted, beforeSig>>
    /\ UNCHANGED <<chanSignal, handle, senders, wpc, cur, pendingWrites, store,
                   mainpc, attempts, sigSeen, atSignal>>

\* Consecutive set_in_background calls with no await between them, one per
\* item [key, value, ttl].
SetEachInBackground(items) ==
    LET msgs == [i \in 1..Len(items) |->
                    Message(nextId + i, items[i].key, items[i].value, items[i].ttl)]
    IN /\ senders > 0
       /\ mainpc \in {"serving", "stopping"}
       /\ nextId' = nextId + Len(items)
       /\ IF WriterAlive
            THEN /\ queue' = queue \o msgs
                 /\ accepted' = accepted \o msgs
                 /\ beforeSig' = IF handle = "held"
                                   THEN beforeSig \cup {msgs[i].id : i \in 1..Len(msgs)}
                                   ELSE beforeSig
            ELSE UNCHANGED <<queue, accepted, beforeSig>>
       /\ UNCHANGED <<chanSignal, handle, senders, wpc, cur, pendingWrites, store,
                      mainpc, attempts, sigSeen, atSignal>>

\* #[derive(Clone)] on Cache (clone_for_task, provider clones).
CloneCache ==
    /\ senders > 0
    /\ senders < MaxClones
    /\ mainpc \in {"serving", "stopping"}
    /\ senders' = senders + 1
    /\ UNCHANGED <<queue, chanSignal, handle, wpc, cur, pendingWrites, store,
                   mainpc, nextId, accepted, beforeSig, attempts, sigSeen, atSignal>>

\* A Cache clone goes out of scope.
DropCache ==
    /\ senders > 0
    /\ mainpc \in {"serving", "stopping"}
    /\ senders' = senders - 1
    /\ UNCHANGED <<queue, chanSignal, handle, wpc, cur, pendingWrites, store,
                   mainpc, nextId, accepted, beforeSig, attempts, sigSeen, atSignal>>

\* ------------------------------------------------------------------------
\* The writer task
\* ------------------------------------------------------------------------

\* Cache::write_to_redis: SET EX on success, nothing on failure.
WriteToRedis(st, msg, ok) ==
    IF ok THEN [st EXCEPT ![msg.key] = [value |-> msg.value, ttl |-> msg.ttl]]
    ELSE st

\* A receive that hands out the newest buffered message first.
WriterRecvMsgNewest ==
    /\ wpc = "select"
    /\ queue /= <<>>
    /\ cur' = queue[Len(queue)]
    /\ queue' = SubSeq(queue, 1, Len(queue) - 1)
    /\ pendingWrites' = pendingWrites + 1
    /\ wpc' = "writing"
    /\ UNCHANGED <<chanSignal, handle, senders, store, mainpc, nextId, accepted,
                   beforeSig, attempts, sigSeen, atSignal>>

\* select! branch `Some(msg) = write_rx.recv()`.
WriterRecvMsg ==
    /\ wpc = "select"
    /\ queue /= <<>>
    /\ cur' = Head(queue)
    /\ queue' = Tail(queue)
    /\ pendingWrites' = pendingWrites + 1
    /\ wpc' = "writing"
    /\ UNCHANGED <<chanSignal, handle, senders, store, mainpc, nextId, accepted,
                   beforeSig, attempts, sigSeen, atSignal>>

\* A write branch that puts a message whose write failed back at the head of
\* the channel.
WriterWriteDoneRetrying(ok) ==
    /\ wpc = "writing"
    /\ store' = WriteToRedis(store, cur, ok)
    /\ attempts' = Append(attempts, [id |-> cur.id, ok |-> ok])
    /\ pendingWrites' = IF ok THEN pendingWrites - 1 ELSE pendingWrites
    /\ queue' = IF ok THEN queue ELSE <<cur>> \o queue
    /\ cur' = NoMsg
    /\ wpc' = "select"
    /\ UNCHANGED <<chanSignal, handle, senders, mainpc, nextId, accepted,
                   beforeSig, sigSeen, atSignal>>

\* write_to_redis returns in the write branch; an error is logged.
WriterWriteDone(ok) ==
    /\ wpc = "writing"
    /\ store' = WriteToRedis(store, cur, ok)
    /\ attempts' = Append(attempts, [id |-> cur.id, ok |-> ok])
    /\ pendingWrites' = IF ok THEN pendingWrites - 1 ELSE pendingWrites
    /\ cur' = NoMsg
    /\ wpc' = "select"
    /\ UNCHANGED <<queue, chanSignal, handle, senders, mainpc, nextId, accepted,
                   beforeSig, sigSeen, atSignal>>

\* A shutdown branch that returns at once, without the drain loop.
WriterRecvShutdownExiting ==
    /\ wpc = "select"
    /\ chanSignal > 0 \/ handle = "dropped"
    /\ sigSeen' = (chanSignal > 0)
    /\ atSignal' = IF chanSignal > 0 THEN Len(accepted) ELSE atSignal
    /\ chanSignal' = 0
    /\ wpc' = "stopped"
    /\ UNCHANGED <<queue, handle, senders, cur, pendingWrites, store, mainpc,
                   nextId, accepted, beforeSig, attempts>>

\* select! branch `_ = shutdown_rx.recv()`: ready on a buffered signal, and
\* also (with None) once the handle is gone and the channel is closed.
WriterRecvShutdown ==
    /\ wpc = "select"
    /\ chanSignal > 0 \/ handle = "dropped"
    /\ sigSeen' = (chanSignal > 0)
    /\ atSignal' = IF chanSignal > 0 THEN Len(accepted) ELSE atSignal
    /\ chanSignal' = 0
    /\ wpc' = "drain"
    /\ UNCHANGED <<queue, handle, senders, cur, pendingWrites, store, mainpc,
                   nextId, accepted, beforeSig, attempts>>

\* `while let Some(msg) = write_rx.recv().await` yields a message.
DrainRecv ==
    /\ wpc = "drain"
    /\ queue /= <<>>
    /\ cur' = Head(queue)
    /\ queue' = Tail(queue)
    /\ wpc' = "flushing"
    /\ UNCHANGED <<chanSignal, handle, senders, pendingWrites, store, mainpc,
                   nextId, accepted, beforeSig, attempts, sigSeen, atSignal>>

\* A drain loop that gives up at the first write that fails.
DrainWriteDoneAborting(ok) ==
    /\ wpc = "flushing"
    /\ store' = WriteToRedis(store, cur, ok)
    /\ attempts' = Append(attempts, [id |-> cur.id, ok |-> ok])
    /\ cur' = NoMsg
    /\ wpc' = IF ok THEN "drain" ELSE "stopped"
    /\ UNCHANGED <<queue, chanSignal, handle, senders, pendingWrites, mainpc,
                   nextId, accepted, beforeSig, sigSeen, atSignal>>

\* write_to_redis returns in the drain loop; an error is logged.
DrainWriteDone(ok) ==
    /\ wpc = "flushing"
    /\ store' = WriteToRedis(store, cur, ok)
    /\ attempts' = Append(attempts, [id |-> cur.id, ok |-> ok])
    /\ cur' = NoMsg
    /\ wpc' = "drain"
    /\ UNCHANGED <<queue, chanSignal, handle, senders, pendingWrites, mainpc,
                   nextId, accepted, beforeSig, sigSeen, atSignal>>

\* The drain loop's recv() yields None: the channel is empty and every
\* sender is gone. Only then does the task reach `break`.
DrainRecvNone == queue = <<>> /\ senders = 0

WriterExit ==
    /\ wpc = "drain"
    /\ DrainRecvNone
    /\ wpc' = "stopped"
    /\ UNCHANGED <<queue, chanSignal, handle, senders, cur, pendingWrites, store,
                   mainpc, nextId, accepted, beforeSig, attempts, sigSeen, atSignal>>

\* ------------------------------------------------------------------------
\* The handle and main()
\* ------------------------------------------------------------------------

\* shutdown_signal: a termination signal arrived; handle.shutdown().await.
\* CacheWriterHandle::shutdown sends the signal (capacity 1, first send, so
\* it is buffered at once), consumes the handle and returns; it holds no
\* JoinHandle and awaits nothing else.
Shutdown ==
    /\ handle = "held"
    /\ mainpc = "serving"
    /\ chanSignal' = IF WriterAlive THEN 1 ELSE 0
    /\ handle' = "used"
    /\ mainpc' = "stopping"
    /\ UNCHANGED <<queue, senders, wpc, cur, pendingWrites, store, nextId,
                   accepted, beforeSig, attempts, sigSeen, atSignal>>

\* The handle is dropped without shutdown() (`Cache::new(..).await.0`).
DropHandle ==
    /\ handle = "held"
    /\ mainpc = "serving"
    /\ handle' = "dropped"
    /\ UNCHANGED <<queue, chanSignal, senders, wpc, cur, pendingWrites, store,
                   mainpc, nextId, accepted, beforeSig, attempts, sigSeen, atSignal>>

\* axum::serve(..).await returns after the graceful shutdown: the router and
\* with it every Cache clone is dropped.
ServeDone ==
    /\ mainpc = "stopping"
    /\ mainpc' = "served"
    /\ senders' = 0
    /\ UNCHANGED <<queue, chanSignal, handle, wpc, cur, pendingWrites, store,
                   nextId, accepted, beforeSig, attempts, sigSeen, atSignal>>

\* main returns Ok(()): the runtime is dropped and a writer task that has not
\* finished is cancelled where it stands.
MainExit ==
    /\ mainpc = "served"
    /\ mainpc' = "exited"
    /\ wpc' = IF wpc = "stopped" THEN "stopped" ELSE "aborted"
    /\ UNCHANGED <<queue, chanSignal, handle, senders, cur, pendingWrites, store,
                   nextId, accepted, beforeSig, attempts, sigSeen, atSignal>>

WriterStep ==
    \/ WriterRecvMsg
    \/ \E ok \in BOOLEAN : WriterWriteDone(ok)
    \/ WriterRecvShutdown
    \/ DrainRecv
    \/ \E ok \in BOOLEAN : DrainWriteDone(ok)
    \/ WriterExit

CacheNext ==
    \/ \E k \in WriterKeys, v \in WriterValues : SetInBackground(k, v, WriterTtl)
    \/ CloneCache
    \/ DropCache
    \/ WriterStep
    \/ Shutdown
    \/ DropHandle
    \/ ServeDone
    \/ MainExit

\* ------------------------------------------------------------------------
\* The optimizer (services/optimization.rs)
\* ------------------------------------------------------------------------

\* Titles of a request are tt1 .. tt<NumTitles>.
Titles == 1..NumTitles

\* Service ids "hulu" and "netflix", by their first letter.
Hulu == <<104>>
Netflix == <<110>>
ServiceIds == {Hulu, Netflix}

\* streaming_services rows in the order the query returns them.
DbRowOrder == <<Netflix, Hulu>>

\* base_monthly_cost in cents; Inactive: no active row for the id.
Inactive == -1
CostChoices == {Inactive, 5, 10, 800}

Sub(sid) == [service_id |-> sid, availability_type |-> "subscription"]
Rent(sid) == [service_id |-> sid, availability_type |-> "rent"]

\* What the batch can hold for one title: nothing (its fetch failed), or a
\* StreamingAvailability with these services.
Missing == <<[service_id |-> <<>>, availability_type |-> "missing"]>>
AvailChoices ==
    { Missing, <<Rent(Hulu)>>, <<Sub(Hulu)>>, <<Sub(Netflix)>>,
      <<Sub(Hulu), Sub(Netflix)>>, <<Sub(Netflix), Sub(Netflix)>> }

\* How a request lists a title: not at all, in must_have, in nice_to_have,
\* or twice in nice_to_have.
Roles == {"none", "must", "nice", "nice2"}

RECURSIVE ListOf(_, _, _)
\* The titles 1..n of the given roles as a request list, a "nice2" title
\* listed twice.
ListOf(role, n, kinds) ==
    IF n = 0 THEN <<>>
    ELSE ListOf(role, n - 1, kinds) \o
         (IF role[n] \notin kinds THEN <<>>
          ELSE IF role[n] = "nice2" THEN <<n, n>> ELSE <<n>>)

RECURSIVE SumSeq(_)
\* iter().sum() over a list of numbers.
SumSeq(list) ==
    IF list = <<>> THEN 0 ELSE Head(list) + SumSeq(Tail(list))

Range(list) == {list[i] : i \in 1..Len(list)}

\* fetch_availability_batch as optimize_services sees it: one entry for each
\* listed title whose fetch succeeded.
BatchOf(allTitles, avail) ==
    SelectSeq(allTitles, LAMBDA t : avail[t] /= Missing)

\* A first pass that keeps the services of every availability type.
ServicesForTitleAnyType(av) == [i \in 1..Len(av) |-> av[i].service_id]

\* build_service_mappings, first pass: the subscription services of a title.
ServicesForTitle(av) ==
    LET subs == SelectSeq(av, LAMBDA sa : sa.availability_type = "subscription")
    IN [i \in 1..Len(subs) |-> subs[i].service_id]

\* build_service_mappings: title_to_services holds the titles of the batch
\* with a non-empty subscription list.
TitleToServicesKeys(batch, avail) ==
    {t \in Range(batch) : ServicesForTitle(avail[t]) /= <<>>}

\* build_service_mappings: service_ids_set.
ServiceIdsSet(batch, avail) ==
    UNION {Range(ServicesForTitle(avail[t])) : t \in Range(batch)}

\* A fetch_service_pricing whose query leaves out `AND active = true`.
FetchServicePricingAnyRow(ids, cost) ==
    SelectSeq(DbRowOrder, LAMBDA sid : sid \in ids)

\* fetch_service_pricing: the active rows among the ids, in row order.
FetchServicePricing(ids, cost) ==
    SelectSeq(DbRowOrder, LAMBDA sid : sid \in ids /\ cost[sid] /= Inactive)

\* The sum of the variables of a title's services: the entries of its
\* service list that name a catalog service, counted where selected.
SelectedEntries(services, catalog, sel) ==
    SumSeq([i \in 1..Len(services) |->
              IF services[i] \in Range(catalog) /\ services[i] \in sel THEN 1 ELSE 0])

\* A find_solution that adds no coverage constraint.
CoverageNotConstrained(sel, catalog, avail, availableMust) == TRUE

\* find_solution, coverage constraints: for each available must-have title
\* the sum of the variables of its services that are in the catalog is >= 1.
CoverageHolds(sel, catalog, avail, availableMust) ==
    \A t \in Range(availableMust) :
        SelectedEntries(ServicesForTitle(avail[t]), catalog, sel) >= 1

\* find_solution, objective: cost of the selection minus the weight for each
\* (nice-to-have entry, service entry) pair with a selected catalog service.
Objective(sel, catalog, cost, avail, keys, nice, w) ==
    SumSeq([i \in 1..Len(catalog) |->
              IF catalog[i] \in sel THEN cost[catalog[i]] ELSE 0])
    - w * SumSeq([i \in 1..Len(nice) |->
              IF nice[i] \in keys
              THEN SelectedEntries(ServicesForTitle(avail[nice[i]]), catalog, sel)
              ELSE 0])

\* The 0/1 assignments satisfying the constraints.
FeasibleSelections(catalog, avail, availableMust) ==
    {sel \in SUBSET Range(catalog) : CoverageHolds(sel, catalog, avail, availableMust)}

\* problem.solve(): the optimal assignments; the solver returns any of them,
\* or fails when none is feasible.
Optima(catalog, cost, avail, keys, availableMust, nice, w) ==
    LET feas == FeasibleSelections(catalog, avail, availableMust)
    IN {sel \in feas :
          \A other \in feas :
              Objective(sel, catalog, cost, avail, keys, nice, w)
                  <= Objective(other, catalog, cost, avail, keys, nice, w)}

\* extract_selected_services: the selected services in catalog order.
ExtractSelectedServices(sel, catalog) ==
    SelectSeq(catalog, LAMBDA sid : sid \in sel)

\* count_nice_to_have_coverage: the entries of nice_to_have with a selected
\* service.
CountNiceToHaveCoverage(selected, nice, avail, keys) ==
    Len(SelectSeq(nice, LAMBDA t :
          t \in keys /\ \E sid \in Range(ServicesForTitle(avail[t])) : sid \in Range(selected)))

\* A Solution whose total_cost sums the whole catalog.
SolutionCostingCatalog(sel, catalog, cost, avail, keys, availableMust, nice) ==
    LET selected == ExtractSelectedServices(sel, catalog)
    IN [services |-> selected,
        total_cost |-> SumSeq([i \in 1..Len(catalog) |-> cost[catalog[i]]]),
        must_have_coverage |-> Len(availableMust),
        nice_to_have_coverage |-> CountNiceToHaveCoverage(selected, nice, avail, keys)]

\* find_solution after a successful solve: the Solution.
SolutionOf(sel, catalog, cost, avail, keys, availableMust, nice) ==
    LET selected == ExtractSelectedServices(sel, catalog)
    IN [services |-> selected,
        total_cost |-> SumSeq([i \in 1..Len(selected) |-> cost[selected[i]]]),
        must_have_coverage |-> Len(availableMust),
        nice_to_have_coverage |-> CountNiceToHaveCoverage(selected, nice, avail, keys)]

\* Lexicographic order on strings (Vec<&str>::sort).
RECURSIVE StrLess(_, _)
StrLess(a, b) ==
    IF b = <<>> THEN FALSE
    ELSE IF a = <<>> THEN TRUE
    ELSE IF Head(a) /= Head(b) THEN Head(a) < Head(b)
    ELSE StrLess(Tail(a), Tail(b))

RECURSIVE SortedIds(_)
\* ids.sort() on a list (duplicates kept): insertion into the sorted rest.
SortedIds(list) ==
    IF list = <<>> THEN <<>>
    ELSE LET rest == SortedIds(Tail(list))
             x == Head(list)
             before == SelectSeq(rest, LAMBDA y : StrLess(y, x))
             after == SelectSeq(rest, LAMBDA y : ~StrLess(y, x))
         IN before \o <<x>> \o after

RECURSIVE JoinComma(_)
\* ids.join(",")
JoinComma(list) ==
    IF list = <<>> THEN <<>>
    ELSE IF Len(list) = 1 THEN Head(list)
    ELSE Head(list) \o <<44>> \o JoinComma(Tail(list))

\* Solution::signature
Signature(solution) == JoinComma(SortedIds(solution.services))

\* The weights tried from the coverage-focused end.
WeightsDescending == <<10000, 1000, 300, 100, 10>>

\* The nice-to-have weights of generate_configurations, in cents.
Weights == <<10, 100, 300, 1000, 10000>>

\* What find_solution can return at each weight: Err when the program is
\* infeasible, else the Solution of any optimum.
SolveResults(catalog, cost, avail, keys, availableMust, nice, w) ==
    LET opt == Optima(catalog, cost, avail, keys, availableMust, nice, w)
    IN IF opt = {} THEN {[ok |-> FALSE, sel |-> {}]}
       ELSE {[ok |-> TRUE, sel |-> x] : x \in opt}

RECURSIVE GenerateConfigurationsKeepingAll(_, _, _, _, _, _, _, _, _, _)
\* A generate_configurations that pushes every solution it finds.
GenerateConfigurationsKeepingAll(i, picks, configs, seen, catalog, cost, avail, keys, availableMust, nice) ==
    IF i > Len(Weights) THEN configs
    ELSE GenerateConfigurationsKeepingAll(
             i + 1, picks,
             IF picks[i].ok
               THEN Append(configs, SolutionOf(picks[i].sel, catalog, cost, avail,
                                               keys, availableMust, nice))
               ELSE configs,
             seen, catalog, cost, avail, keys, availableMust, nice)

RECURSIVE GenerateConfigurationsNewestFirst(_, _, _, _, _, _, _, _, _, _)
\* A generate_configurations that puts each new configuration in front.
GenerateConfigurationsNewestFirst(i, picks, configs, seen, catalog, cost, avail, keys, availableMust, nice) ==
    IF i > Len(Weights) THEN configs
    ELSE IF ~picks[i].ok
         THEN GenerateConfigurationsNewestFirst(i + 1, picks, configs, seen, catalog,
                                                cost, avail, keys, availableMust, nice)
         ELSE LET solution == SolutionOf(picks[i].sel, catalog, cost, avail, keys,
                                         availableMust, nice)
                  sig == Signature(solution)
              IN IF sig \in seen
                 THEN GenerateConfigurationsNewestFirst(i + 1, picks, configs, seen,
                                                        catalog, cost, avail, keys,
                                                        availableMust, nice)
                 ELSE GenerateConfigurationsNewestFirst(i + 1, picks,
                                                        <<solution>> \o configs,
                                                        seen \cup {sig}, catalog, cost,
                                                        avail, keys, availableMust, nice)

RECURSIVE GenerateConfigurations(_, _, _, _, _, _, _, _, _, _)
\* generate_configurations: the loop over the weights from index i on, with
\* picks[i] the solver's answer at weight i.
GenerateConfigurations(i, picks, configs, seen, catalog, cost, avail, keys, availableMust, nice) ==
    IF i > Len(Weights) THEN configs
    ELSE IF ~picks[i].ok
         THEN GenerateConfigurations(i + 1, picks, configs, seen, catalog, cost,
                                     avail, keys, availableMust, nice)
         ELSE LET solution == SolutionOf(picks[i].sel, catalog, cost, avail, keys,
                                         availableMust, nice)
                  sig == Signature(solution)
              IN IF sig \in seen
                 THEN GenerateConfigurations(i + 1, picks, configs, seen, catalog,
                                             cost, avail, keys, availableMust, nice)
                 ELSE GenerateConfigurations(i + 1, picks, Append(configs, solution),
                                             seen \cup {sig}, catalog, cost, avail,
                                             keys, availableMust, nice)

ErrResponse(kind) ==
    [status |-> kind, configurations |-> <<>>,
     unavailable_must_have |-> <<>>, unavailable_nice_to_have |-> <<>>]

OkResponse(configs, unMust, unNice) ==
    [status |-> "Ok", configurations |-> configs,
     unavailable_must_have |-> unMust, unavailable_nice_to_have |-> unNice]

NoResponse == ErrResponse("none")

\* The request of the optimizer scenarios.
RequestOf(role) ==
    [must_have |-> ListOf(role, NumTitles, {"must"}),
     nice_to_have |-> ListOf(role, NumTitles, {"nice", "nice2"})]

\* optimize_services, from the request to the response, for the solver's
\* answers `picks`.
OptimizeServices(req, avail, cost, picks) ==
    LET allTitles == req.must_have \o req.nice_to_have
        batch == BatchOf(allTitles, avail)
        keys == TitleToServicesKeys(batch, avail)
        catalog == FetchServicePricing(ServiceIdsSet(batch, avail), cost)
        unMust == SelectSeq(req.must_have, LAMBDA t : t \notin keys)
        unNice == SelectSeq(req.nice_to_have, LAMBDA t : t \notin keys)
        availableMust == SelectSeq(req.must_have, LAMBDA t : t \in keys)
    IN IF allTitles = <<>> THEN ErrResponse("InvalidInput")
       ELSE IF batch = <<>> THEN ErrResponse("ExternalApi")
       ELSE IF catalog = <<>> THEN ErrResponse("Optimization")
       ELSE IF availableMust = <<>> /\ req.must_have /= <<>>
            THEN OkResponse(<<>>, unMust, unNice)
       ELSE OkResponse(
              GenerateConfigurations(1, picks, <<>>, {}, catalog, cost, avail,
                                     keys, availableMust, req.nice_to_have),
              unMust, unNice)

\* The solver's possible answers at the five weights for a request.
SolverPicks(req, avail, cost) ==
    LET allTitles == req.must_have \o req.nice_to_have
        batch == BatchOf(allTitles, avail)
        keys == TitleToServicesKeys(batch, avail)
        catalog == FetchServicePricing(ServiceIdsSet(batch, avail), cost)
        availableMust == SelectSeq(req.must_have, LAMBDA t : t \in keys)
        at(i) == SolveResults(catalog, cost, avail, keys, availableMust,
                              req.nice_to_have, Weights[i])
    IN {<<p1, p2, p3, p4, p5>> :
          p1 \in at(1), p2 \in at(2), p3 \in at(3), p4 \in at(4), p5 \in at(5)}

\* No optimization request in hand.
OptIdle ==
    /\ optRole = [t \in Titles |-> "none"]
    /\ optAvail = [t \in Titles |-> Missing]
    /\ optCost = [sid \in ServiceIds |-> Inactive]
    /\ optPicks = <<>>
    /\ optResp = NoResponse

\* An optimization request arrives: its lists, what the availability batch
\* will hold for its titles, and the catalog rows.
OptInit ==
    /\ optRole \in [Titles -> Roles]
    /\ optAvail \in [Titles -> AvailChoices]
    /\ \A t \in Titles : optRole[t] = "none" => optAvail[t] = Missing
    /\ optCost \in [ServiceIds -> CostChoices]
    /\ optPicks = <<>>
    /\ optResp = NoResponse

\* optimize_services runs to its response; the solver answers each of the
\* five weights with any optimum.
Optimize ==
    /\ optResp = NoResponse
    /\ \E picks \in SolverPicks(RequestOf(optRole), optAvail, optCost) :
          /\ optPicks' = picks
          /\ optResp' = OptimizeServices(RequestOf(optRole), optAvail, optCost, picks)
    /\ UNCHANGED <<optRole, optAvail, optCost>>

\* ------------------------------------------------------------------------
\* Availability calls (services/providers, services/availability.rs)
\* ------------------------------------------------------------------------

TITLE_CACHE_TTL == 3600
AVAIL_CACHE_TTL == 604800
IMDB_MAPPING_TTL == 2592000
CACHE_TTL == 604800
MONTHLY_QUOTA == 25000

\* StreamingAvailability {id, services}; cached_at is a wall-clock stamp that
\* no operation reads and is left out.
StreamingAvailability(id, services) == [id |-> id, services |-> services]

NoId == [kind |-> "", imdb |-> <<>>, wm |-> 0]
NoAvailability == StreamingAvailability(NoId, <<>>)

\* A value a cached! handles: a StreamingAvailability, a u64 or a Vec<Title>
\* (each Title by its id).
AvValue(av) == [av |-> av, num |-> 0, titles |-> <<>>]
NumValue(n) == [av |-> NoAvailability, num |-> n, titles |-> <<>>]
TitlesValue(ts) == [av |-> NoAvailability, num |-> 0, titles |-> ts]
NoValue == NumValue(0)

NoJsonId == [tag |-> "", body |-> <<>>]
NoJson == [schema |-> "", id |-> NoJsonId, services |-> <<>>, body |-> <<>>,
           titles |-> <<>>]

\* #[derive(Serialize)] on TitleId: externally tagged, {"Imdb":"tt1"} or
\* {"Watchmode":7}.
TitleIdJson(t) ==
    IF t.kind = "Imdb" THEN [tag |-> "Imdb", body |-> <<34>> \o t.imdb \o <<34>>]
    ELSE [tag |-> "Watchmode", body |-> Digits(t.wm)]

\* #[derive(Deserialize)] on TitleId.
ParseTitleId(j) ==
    IF j.tag = "Imdb" THEN Imdb(SubSeq(j.body, 2, Len(j.body) - 1))
    ELSE Watchmode(ParseU64(j.body))

\* serde_json::to_string of a value of the given type. The legacy service's
\* StreamingAvailability has an imdb_id string where the providers' has id.
ToJson(v, type) ==
    CASE type = "StreamingAvailability" ->
            [schema |-> type, id |-> TitleIdJson(v.av.id),
             services |-> v.av.services, body |-> <<>>, titles |-> <<>>]
      [] type = "u64" ->
            [schema |-> type, id |-> NoJsonId, services |-> <<>>,
             body |-> Digits(v.num), titles |-> <<>>]
      [] type = "LegacyAvailability" ->
            [schema |-> type, id |-> NoJsonId, services |-> v.av.services,
             body |-> <<34>> \o v.av.id.imdb \o <<34>>, titles |-> <<>>]
      [] type = "Vec<Title>" ->
            [schema |-> type, id |-> NoJsonId, services |-> <<>>, body |-> <<>>,
             titles |-> [i \in 1..Len(v.titles) |-> TitleIdJson(v.titles[i])]]

\* serde_json::from_str of a document of the schema it was written with.
FromJson(j) ==
    CASE j.schema = "StreamingAvailability" ->
            AvValue(StreamingAvailability(ParseTitleId(j.id), j.services))
      [] j.schema = "u64" -> NumValue(ParseU64(j.body))
      [] j.schema = "LegacyAvailability" ->
            AvValue(StreamingAvailability(
                Imdb(SubSeq(j.body, 2, Len(j.body) - 1)), j.services))
      [] j.schema = "Vec<Title>" ->
            TitlesValue([i \in 1..Len(j.titles) |-> ParseTitleId(j.titles[i])])

Ok(v) == [status |-> "Ok", kind |-> "", value |-> v]
Err(kind) == [status |-> "Err", kind |-> kind, value |-> NoValue]
NoResult == [status |-> "", kind |-> "", value |-> NoValue]

\* Cache::get_from_cache::<T>: a store failure, a missing key, a document of
\* another schema, or the parsed value.
GetFromCache(st, key, type, ok) ==
    LET e == st[DisplayKey(key)]
    IN IF ~ok THEN [res |-> "fail", out |-> Err("Cache")]
       ELSE IF e.ttl = 0 THEN [res |-> "none", out |-> NoResult]
       ELSE IF e.value.schema /= type THEN [res |-> "bad", out |-> Err("Internal")]
       ELSE [res |-> "some", out |-> Ok(FromJson(e.value))]

\* What an upstream answers. net: "ok", "transport" (reqwest error) or
\* "status" (non-success status); the other fields are the DTO.
Response(net, imdb_id, options, first, sources) ==
    [net |-> net, imdb_id |-> imdb_id, options |-> options, first |-> first,
     sources |-> sources, results |-> <<>>]

Failures == {Response(n, <<>>, <<>>, 0, <<>>) : n \in {"transport", "status"}}

\* streaming_options["us"] of a GET /shows/{id} answer.
ApiOptions ==
    {<<[service |-> Netflix, availability_type |-> "subscription"],
       [service |-> Hulu, availability_type |-> "weekly"],
       [service |-> Hulu, availability_type |-> "rent"]>>}

\* GET /shows/{id}: imdb_id is None (<<>>) or Some(s) (<<s>>).
ShowResponses ==
    Failures \cup
    {Response("ok", i, o, 0, <<>>) :
        i \in {<<>>, <<ImdbTt1>>}, o \in ApiOptions}

\* GET /v1/search/ by imdb_id: first is title_results.first().id, 0 when
\* title_results is empty.
SearchResponses ==
    Failures \cup
    {Response("ok", <<>>, <<>>, n, <<>>) : n \in {0, WatchmodeSeven}}

WmNetflix == 203
TypeSub == <<115, 117, 98>>
TypeRent == <<114, 101, 110, 116>>

\* sources of a GET /v1/title/{id}/details/ answer: "SUB" on a mapped
\* service, "sub" on an unmapped one, "tve" and "rent" on the mapped one.
WmSources ==
    {<<[source_id |-> WmNetflix, source_type |-> <<83, 85, 66>>],
       [source_id |-> WmNetflix + 1, source_type |-> TypeSub],
       [source_id |-> WmNetflix, source_type |-> <<116, 118, 101>>],
       [source_id |-> WmNetflix, source_type |-> TypeRent]>>}

DetailResponses ==
    Failures \cup {Response("ok", <<>>, <<>>, 0, src) : src \in WmSources}

\* A title search answer: the shows (GET /shows/search/title) or the
\* autocomplete results (GET /v1/autocomplete-search/), each by its id and
\* its optional imdb_id.
TitleResults(results) == [Response("ok", <<>>, <<>>, 0, <<>>) EXCEPT !.results = results]

\* A show with an IMDB id beside one without.
TitleSearchResponses ==
    Failures \cup
    {TitleResults(<<[id |-> ImdbSeven, imdb_id |-> <<ImdbTt1>>],
                    [id |-> ImdbSeven, imdb_id |-> <<>>]>>)}

\* An autocomplete result with an IMDB id beside one without.
AutocompleteResponses ==
    Failures \cup
    {TitleResults(<<[id |-> WatchmodeSeven, imdb_id |-> <<ImdbTt1>>],
                    [id |-> WatchmodeSeven + 1, imdb_id |-> <<>>]>>)}

\* HTTP failures of an upstream call: `.send().await?` and the status check.
NetError(resp) == IF resp.net = "transport" THEN Err("HttpClient") ELSE Err("ExternalApi")

RECURSIVE ConvertOptions(_)
\* convert_api_response: the "us" options with a known type, in order.
ConvertOptions(options) ==
    IF options = <<>> THEN <<>>
    ELSE LET o == Head(options)
             rest == ConvertOptions(Tail(options))
         IN IF o.availability_type \in {"subscription", "rent", "buy", "free", "addon"}
              THEN <<[service_id |-> o.service,
                      availability_type |-> o.availability_type]>> \o rest
              ELSE rest

\* StreamingAvailabilityProvider::convert_api_response.
ConvertApiResponse(details) ==
    IF details.imdb_id = <<>> THEN Err("ExternalApi")
    ELSE Ok(AvValue(StreamingAvailability(Imdb(details.imdb_id[1]),
                                          ConvertOptions(details.options))))

\* WatchmodeProvider::map_service_id over the service_mappings table.
MapServiceId(source_id) == IF source_id = WmNetflix THEN <<Netflix>> ELSE <<>>

\* WatchmodeProvider::parse_availability_type.
ParseAvailabilityType(source_type) ==
    LET t == ToLowercase(source_type)
    IN CASE t = TypeSub -> <<"subscription">>
         [] t = TypeRent -> <<"rent">>
         [] OTHER -> <<>>

RECURSIVE BuildServices(_)
\* The loop of build_availability_from_details.
BuildServices(sources) ==
    IF sources = <<>> THEN <<>>
    ELSE LET s == Head(sources)
             sid == MapServiceId(s.source_id)
             ty == ParseAvailabilityType(s.source_type)
             rest == BuildServices(Tail(sources))
         IN IF sid /= <<>> /\ ty /= <<>>
              THEN <<[service_id |-> sid[1], availability_type |-> ty[1]]>> \o rest
              ELSE rest

\* WatchmodeProvider::build_availability_from_details.
BuildAvailabilityFromDetails(requested_id, watchmode_id, details) ==
    StreamingAvailability(requested_id, BuildServices(details.sources))

\* A conversion that always takes the API's own id.
TitleFromApiShowById(show) == Imdb(show.id)

\* impl From<ApiShow> for Title, the id: the IMDB id when there is one, else
\* the API's own id as an IMDB id.
TitleFromApiShow(show) ==
    IF show.imdb_id /= <<>> THEN Imdb(show.imdb_id[1]) ELSE Imdb(show.id)

\* impl From<WatchmodeTitle> for Title, the id.
TitleFromWatchmodeTitle(watchmode) == Watchmode(watchmode.id)

\* The async block of each cached!: what it evaluates to on an answer.
Block(prov, stage, id, wm, resp) ==
    IF resp.net /= "ok" THEN NetError(resp)
    ELSE CASE stage = "resolve" ->
                IF resp.first = 0 THEN Err("ExternalApi") ELSE Ok(NumValue(resp.first))
           [] stage = "avail" /\ prov = "sa" -> ConvertApiResponse(resp)
           [] stage = "avail" /\ prov = "wm" ->
                Ok(AvValue(BuildAvailabilityFromDetails(id, wm, resp)))
           [] stage = "search" /\ prov = "sa" ->
                Ok(TitlesValue([i \in 1..Len(resp.results) |->
                                   TitleFromApiShow(resp.results[i])]))
           [] stage = "search" /\ prov = "wm" ->
                Ok(TitlesValue([i \in 1..Len(resp.results) |->
                                   TitleFromWatchmodeTitle(resp.results[i])]))

RECURSIVE MappingWrites(_)
\* The loop of WatchmodeProvider::search_titles over the autocomplete
\* results: one ImdbToWatchmode write per result that has an imdb_id.
MappingWrites(results) ==
    IF results = <<>> THEN <<>>
    ELSE LET t == Head(results)
             rest == MappingWrites(Tail(results))
         IN IF t.imdb_id /= <<>>
              THEN <<[key |-> ImdbToWatchmode(t.imdb_id[1]),
                      value |-> ToJson(NumValue(t.id), "u64"),
                      ttl |-> IMDB_MAPPING_TTL]>> \o rest
              ELSE rest

\* A search block that caches no mapping.
BlockWritesNothing(prov, stage, resp) == <<>>

\* What a cached! block enqueues on its own before it evaluates to Ok.
BlockWrites(prov, stage, resp) ==
    IF prov = "wm" /\ stage = "search" /\ resp.net = "ok"
      THEN MappingWrites(resp.results)
      ELSE <<>>

\* The answers the upstream of a cached! block can give.
Responses(prov, stage) ==
    CASE stage = "resolve" -> SearchResponses
      [] stage = "avail" /\ prov = "sa" -> ShowResponses
      [] stage = "avail" /\ prov = "wm" -> DetailResponses
      [] stage = "search" /\ prov = "sa" -> TitleSearchResponses
      [] stage = "search" /\ prov = "wm" -> AutocompleteResponses

\* The type and the TTL each cached! is written with.
TypeOf(stage) ==
    CASE stage = "resolve" -> "u64"
      [] stage = "search" -> "Vec<Title>"
      [] OTHER -> "StreamingAvailability"
\* Every cached! invoked with the availability TTL.
TtlOfAvailability(stage) == AVAIL_CACHE_TTL

TtlOf(stage) ==
    CASE stage = "resolve" -> IMDB_MAPPING_TTL
      [] stage = "search" -> TITLE_CACHE_TTL
      [] OTHER -> AVAIL_CACHE_TTL

Event(op, key, res, value, json, ttl) ==
    [op |-> op, key |-> key, res |-> res, value |-> value, json |-> json, ttl |-> ttl]

NoKey == [kind |-> "", arg |-> <<>>]

\* No availability call in hand.
FetchIdle ==
    /\ fProv = None
    /\ fHad = FALSE
    /\ fId = NoId
    /\ fpc = "idle"
    /\ fStage = ""
    /\ fKey = NoKey
    /\ fWm = 0
    /\ fApi = NoValue
    /\ fTrace = <<>>
    /\ fResult = NoResult
    /\ apiUsage = MONTHLY_QUOTA - UsageHeadroom
    /\ searched = <<>>

\* A fetch_availability of the Watchmode provider that resolves every id
\* through the mapping, a Watchmode id by its digits.
FetchStartAlwaysResolving(prov, id) ==
    /\ fpc = "idle"
    /\ prov = "legacy" => id.kind = "Imdb"
    /\ fProv' = prov
    /\ fHad' = LET e == store[DisplayKey(Availability(DisplayId(id)))]
                IN e.ttl > 0 /\ e.value.schema = "StreamingAvailability"
    /\ fId' = id
    /\ fWm' = 0
    /\ fStage' = CASE prov = "legacy" -> ""
                   [] prov = "wm" -> "resolve"
                   [] OTHER -> "avail"
    /\ fKey' = CASE prov = "legacy" -> NoKey
                 [] prov = "wm" -> ImdbToWatchmode(DisplayId(id))
                 [] OTHER -> Availability(DisplayId(id))
    /\ fpc' = IF prov = "legacy" THEN "lget" ELSE "get"
    /\ fTrace' = <<>>
    /\ fResult' = NoResult
    /\ UNCHANGED <<fApi, apiUsage, searched>>
    /\ UNCHANGED cacheVars

\* fetch_availability / fetch_single_title is called. The Watchmode provider
\* resolves an IMDB id first; the legacy service takes IMDB id strings only.
FetchStart(prov, id) ==
    /\ fpc = "idle"
    /\ prov = "legacy" => id.kind = "Imdb"
    /\ fProv' = prov
    /\ fHad' = LET e == store[DisplayKey(Availability(DisplayId(id)))]
                IN e.ttl > 0 /\ e.value.schema = "StreamingAvailability"
    /\ fId' = id
    /\ fWm' = IF prov = "wm" /\ id.kind = "Watchmode" THEN id.wm ELSE 0
    /\ fStage' = CASE prov = "legacy" -> ""
                   [] prov = "wm" /\ id.kind = "Imdb" -> "resolve"
                   [] OTHER -> "avail"
    /\ fKey' = CASE prov = "legacy" -> NoKey
                 [] prov = "wm" /\ id.kind = "Imdb" -> ImdbToWatchmode(id.imdb)
                 [] OTHER -> Availability(DisplayId(id))
    /\ fpc' = IF prov = "legacy" THEN "lget" ELSE "get"
    /\ fTrace' = <<>>
    /\ fResult' = NoResult
    /\ UNCHANGED <<fApi, apiUsage, searched>>
    /\ UNCHANGED cacheVars

\* A query of whitespace only: query.trim().is_empty().
IsBlank(query) == \A i \in 1..Len(query) : query[i] = 32

\* search_titles of either provider is called: a blank query is InvalidInput,
\* any other goes through cached! under TitleSearch(query).
SearchStart(prov, query) ==
    /\ fpc = "idle"
    /\ Len(searched) < MaxSearches
    /\ fProv' = prov
    /\ fHad' = FALSE
    /\ fId' = NoId
    /\ fWm' = 0
    /\ fStage' = "search"
    /\ fKey' = TitleSearch(query)
    /\ fTrace' = <<>>
    /\ IF IsBlank(query)
         THEN /\ fpc' = "done"
              /\ fResult' = Err("InvalidInput")
         ELSE /\ fpc' = "get"
              /\ fResult' = NoResult
    /\ searched' = Append(searched,
          [prov |-> prov, query |-> query, present |-> {}, upstream |-> 0,
           result |-> NoResult])
    /\ UNCHANGED <<fApi, apiUsage>>
    /\ UNCHANGED cacheVars

\* The call returns an error to its caller.
Fail(e, events) ==
    /\ fResult' = e
    /\ fpc' = "done"
    /\ fTrace' = fTrace \o events
    /\ UNCHANGED <<fProv, fHad, fId, fStage, fKey, fWm, fApi, apiUsage>>

\* A cached! evaluated to Ok(v): get_watchmode_id hands the id to
\* fetch_availability, which goes on to its own cached!; the availability
\* cached! is the value of fetch_availability.
Continue(v, events) ==
    /\ fTrace' = fTrace \o events
    /\ IF fStage = "resolve"
         THEN /\ fWm' = v.num
              /\ fStage' = "avail"
              /\ fKey' = Availability(DisplayId(fId))
              /\ fpc' = "get"
              /\ UNCHANGED fResult
         ELSE /\ fResult' = Ok(v)
              /\ fpc' = "done"
              /\ UNCHANGED <<fWm, fStage, fKey>>
    /\ UNCHANGED <<fProv, fHad, fId, fApi, apiUsage>>

\* cached!, a hit that writes the value it read back to the cache.
CachedOnHitRewriting(v) ==
    /\ SetInBackground(fKey, ToJson(v, TypeOf(fStage)), TtlOf(fStage))
    /\ Continue(v, <<Event("get", fKey, "some", v, NoJson, 0),
                     Event("return", fKey, "Ok", v, NoJson, 0)>>)

\* cached!, `if let Some(cached) = ..` taken: Ok(cached), nothing else.
CachedOnHit(v) ==
    /\ Continue(v, <<Event("get", fKey, "some", v, NoJson, 0),
                     Event("return", fKey, "Ok", v, NoJson, 0)>>)
    /\ UNCHANGED cacheVars

\* cached!, the block evaluated to r after enqueuing `written` on its own:
\* set_in_background(&key, &value, ttl), then Ok(value).
CachedOnComputed(r, written) ==
    /\ SetEachInBackground(written \o
          <<[key |-> fKey, value |-> ToJson(r, TypeOf(fStage)), ttl |-> TtlOf(fStage)]>>)
    /\ Continue(r,
         <<Event("compute", fKey, "ok", r, NoJson, 0)>>
         \o (IF Len(queue') > Len(queue)
               THEN <<Event("enqueue", fKey, "", NoValue, queue'[Len(queue')].value,
                            queue'[Len(queue')].ttl)>>
               ELSE <<>>)
         \o <<Event("return", fKey, "Ok", r, NoJson, 0)>>)

\* cached!, first await: get_from_cache(&key).await?
CachedGet(ok) ==
    /\ fpc = "get"
    /\ searched' = IF fStage = "search"
                     THEN [searched EXCEPT ![Len(searched)].present =
                              {w \in WireKeys : store[w].ttl > 0}]
                     ELSE searched
    /\ LET got == GetFromCache(store, fKey, TypeOf(fStage), ok)
       IN CASE got.res = "some" -> CachedOnHit(got.out.value)
            [] got.res = "none" ->
                 /\ fpc' = "compute"
                 /\ fTrace' = Append(fTrace, Event("get", fKey, "none", NoValue, NoJson, 0))
                 /\ UNCHANGED <<fProv, fHad, fId, fStage, fKey, fWm, fApi, fResult,
                                apiUsage>>
                 /\ UNCHANGED cacheVars
            [] OTHER ->
                 /\ Fail(got.out, <<Event("get", fKey, got.res, NoValue, NoJson, 0),
                                    Event("return", fKey, "Err", NoValue, NoJson, 0)>>)
                 /\ UNCHANGED cacheVars

\* A cached! that stores the outcome of its block whether Ok or Err.
CachedComputeCachingErrors(resp) ==
    /\ fpc = "compute"
    /\ fStage = "search" \/ nextId < MaxFetchMsgs
    /\ resp \in Responses(fProv, fStage)
    /\ searched' = IF fStage = "search"
                     THEN [searched EXCEPT ![Len(searched)].upstream = @ + 1]
                     ELSE searched
    /\ LET r == Block(fProv, fStage, fId, fWm, resp)
       IN IF r.status = "Ok"
            THEN CachedOnComputed(r.value, BlockWrites(fProv, fStage, resp))
          ELSE /\ Fail(r, <<Event("compute", fKey, "err", NoValue, NoJson, 0),
                            Event("return", fKey, "Err", NoValue, NoJson, 0)>>)
               /\ SetInBackground(fKey, ToJson(NoValue, TypeOf(fStage)), TtlOf(fStage))

\* cached!, second await: $block.await?
CachedCompute(resp) ==
    /\ fpc = "compute"
    /\ fStage = "search" \/ nextId < MaxFetchMsgs
    /\ resp \in Responses(fProv, fStage)
    /\ searched' = IF fStage = "search"
                     THEN [searched EXCEPT ![Len(searched)].upstream = @ + 1]
                     ELSE searched
    /\ LET r == Block(fProv, fStage, fId, fWm, resp)
       IN IF r.status = "Ok"
            THEN CachedOnComputed(r.value, BlockWrites(fProv, fStage, resp))
          ELSE /\ Fail(r, <<Event("compute", fKey, "err", NoValue, NoJson, 0),
                            Event("return", fKey, "Err", NoValue, NoJson, 0)>>)
               /\ UNCHANGED cacheVars

\* The wire key of the legacy service: format!("avail:{}", imdb_id).
LegacyKey(imdb_id) == PrefixAvail \o imdb_id

\* AvailabilityService::fetch_single_title up to get_from_redis(..).await?
LegacyGet(ok) ==
    /\ fpc = "lget"
    /\ UNCHANGED searched
    /\ LET e == store[LegacyKey(fId.imdb)]
       IN CASE ~ok ->
                 Fail(Err("Cache"), <<Event("get", NoKey, "fail", NoValue, NoJson, 0)>>)
            [] ok /\ e.ttl = 0 ->
                 /\ fpc' = "lapi"
                 /\ fTrace' = Append(fTrace, Event("get", NoKey, "none", NoValue, NoJson, 0))
                 /\ UNCHANGED <<fProv, fHad, fId, fStage, fKey, fWm, fApi, fResult,
                                apiUsage>>
            [] ok /\ e.ttl /= 0 /\ e.value.schema /= "LegacyAvailability" ->
                 Fail(Err("Internal"), <<Event("get", NoKey, "bad", NoValue, NoJson, 0)>>)
            [] OTHER ->
                 /\ fResult' = Ok(FromJson(e.value))
                 /\ fpc' = "done"
                 /\ fTrace' = Append(fTrace,
                        Event("get", NoKey, "some", FromJson(e.value), NoJson, 0))
                 /\ UNCHANGED <<fProv, fHad, fId, fStage, fKey, fWm, fApi, apiUsage>>
    /\ UNCHANGED cacheVars

\* AvailabilityService::call_api: check_rate_limit, the upstream call,
\* increment_api_usage, convert_api_response. connOk: the store connection of
\* check_rate_limit; incrOk: the INCR/EXPIRE of increment_api_usage.
LegacyCallApi(resp, connOk, incrOk) ==
    /\ fpc = "lapi"
    /\ UNCHANGED searched
    /\ LET out == CASE ~connOk -> Err("Cache")
                    [] connOk /\ apiUsage >= MONTHLY_QUOTA -> Err("ExternalApi")
                    [] connOk /\ apiUsage < MONTHLY_QUOTA /\ resp.net /= "ok" ->
                         NetError(resp)
                    [] connOk /\ apiUsage < MONTHLY_QUOTA /\ resp.net = "ok" /\ ~incrOk ->
                         Err("Cache")
                    [] OTHER -> ConvertApiResponse(resp)
           called == connOk /\ apiUsage < MONTHLY_QUOTA
           counted == called /\ resp.net = "ok" /\ incrOk
       IN /\ apiUsage' = IF counted THEN apiUsage + 1 ELSE apiUsage
          /\ fTrace' = fTrace \o
                (IF called THEN <<Event("compute", NoKey,
                                        IF out.status = "Ok" THEN "ok" ELSE "err",
                                        out.value, NoJson, 0)>>
                 ELSE <<>>)
          /\ IF out.status = "Ok"
               THEN /\ fApi' = out.value
                    /\ fpc' = "lstore"
                    /\ UNCHANGED fResult
               ELSE /\ fResult' = out
                    /\ fpc' = "done"
                    /\ UNCHANGED fApi
    /\ UNCHANGED <<fProv, fHad, fId, fStage, fKey, fWm>>
    /\ UNCHANGED cacheVars

\* AvailabilityService::fetch_single_title from store_in_redis(..).await? on:
\* SET EX under avail:<data.imdb_id>, whose error is the call's error.
LegacyStore(ok) ==
    /\ fpc = "lstore"
    /\ UNCHANGED searched
    /\ LET json == ToJson(fApi, "LegacyAvailability")
           key == LegacyKey(fApi.av.id.imdb)
       IN /\ store' = IF ok THEN [store EXCEPT ![key] = [value |-> json, ttl |-> CACHE_TTL]]
                      ELSE store
          /\ fTrace' = Append(fTrace,
                 Event("write", NoKey, IF ok THEN "ok" ELSE "fail", fApi, json, CACHE_TTL))
    /\ fResult' = IF ok THEN Ok(fApi) ELSE Err("Cache")
    /\ fpc' = "done"
    /\ UNCHANGED <<fProv, fHad, fId, fStage, fKey, fWm, fApi, apiUsage>>
    /\ UNCHANGED <<queue, chanSignal, handle, senders, wpc, cur, pendingWrites,
                   mainpc, nextId, accepted, beforeSig, attempts, sigSeen, atSignal>>

\* The caller has its answer; the next call can start.
FetchReturn ==
    /\ fpc = "done"
    /\ fProv' = None
    /\ fHad' = FALSE
    /\ fId' = NoId
    /\ fpc' = "idle"
    /\ fStage' = ""
    /\ fKey' = NoKey
    /\ fWm' = 0
    /\ fApi' = NoValue
    /\ fTrace' = <<>>
    /\ fResult' = NoResult
    /\ searched' = IF fStage = "search"
                     THEN [searched EXCEPT ![Len(searched)].result = fResult]
                     ELSE searched
    /\ UNCHANGED apiUsage
    /\ UNCHANGED cacheVars

Providers == {"sa", "wm", "legacy"}

FetchNext ==
    \/ \E prov \in Providers, id \in FetchIds : FetchStart(prov, id)
    \/ \E ok \in BOOLEAN : CachedGet(ok)
    \/ \E resp \in ShowResponses \cup SearchResponses \cup DetailResponses :
          CachedCompute(resp)
    \/ \E ok \in BOOLEAN : LegacyGet(ok)
    \/ \E resp \in ShowResponses, connOk \in BOOLEAN, incrOk \in BOOLEAN :
          LegacyCallApi(resp, connOk, incrOk)
    \/ \E ok \in BOOLEAN : LegacyStore(ok)
    \/ FetchReturn

\* ------------------------------------------------------------------------
\* The availability batcher (providers/mod.rs, services/availability.rs)
\* ------------------------------------------------------------------------

\* Ids a batch can name.
BatchIds == {Imdb(ImdbTt1), Watchmode(WatchmodeSeven)}

\* What a worker that succeeds can return for an id.
WorkerValues(id) ==
    {StreamingAvailability(id, <<Sub(Netflix)>>),
     StreamingAvailability(Imdb(ImdbTt1), <<>>)}

\* How a worker ends: Ok(Ok(_)), Ok(Err(e)) with e's kind, or a JoinError.
WorkerErrors == {"ExternalApi", "Cache"}

Task(id, state, kind, value) == [id |-> id, state |-> state, kind |-> kind, value |-> value]

NoBatchResponse == [status |-> "", kind |-> "", message |-> "", list |-> <<>>]

FetchFailed == "Failed to fetch any availability data"

\* No batch in hand.
BatchIdle ==
    /\ bImpl = None
    /\ bIds = <<>>
    /\ bTasks = <<>>
    /\ bNext = 1
    /\ bResults = <<>>
    /\ bErrors = <<>>
    /\ bResp = NoBatchResponse
    /\ bFinished = <<>>

\* fetch_availability_batch is called with a list of ids; the legacy service
\* takes IMDB id strings.
BatchInit ==
    /\ bImpl \in {"provider", "service"}
    /\ \E n \in 0..MaxBatch : bIds \in [1..n -> BatchIds]
    /\ bImpl = "service" => \A i \in 1..Len(bIds) : bIds[i].kind = "Imdb"
    /\ bTasks = <<>>
    /\ bNext = 1
    /\ bResults = <<>>
    /\ bErrors = <<>>
    /\ bResp = NoBatchResponse
    /\ bFinished = <<>>

\* One turn of the spawning loop: tokio::spawn of a worker for the next id.
BatchSpawn ==
    /\ bResp = NoBatchResponse
    /\ Len(bTasks) < Len(bIds)
    /\ bTasks' = Append(bTasks, Task(bIds[Len(bTasks) + 1], "running", "", NoAvailability))
    /\ UNCHANGED <<bImpl, bIds, bNext, bResults, bErrors, bResp, bFinished>>

\* A spawned worker ends, in any order: with a value, with an error, or by
\* panicking.
WorkerDone(i, state, kind, value) ==
    /\ i \in 1..Len(bTasks)
    /\ bTasks[i].state = "running"
    /\ bTasks' = [bTasks EXCEPT ![i] = Task(bTasks[i].id, state, kind, value)]
    /\ bFinished' = Append(bFinished, i)
    /\ UNCHANGED <<bImpl, bIds, bNext, bResults, bErrors, bResp>>

WorkerStep ==
    \E i \in 1..Len(bTasks) :
        \/ \E v \in WorkerValues(bTasks[i].id) : WorkerDone(i, "ok", "", v)
        \/ \E k \in WorkerErrors : WorkerDone(i, "err", k, NoAvailability)
        \/ WorkerDone(i, "panic", "", NoAvailability)

\* mod.rs, `match task.await`: a drop-everything variant.
CollectTaskDroppingOnError(results, errors, task) ==
    CASE task.state = "ok" -> [results |-> Append(results, task.value), errors |-> errors]
      [] task.state = "err" -> [results |-> <<>>, errors |-> Append(errors, task.kind)]
      [] task.state = "panic" -> [results |-> <<>>, errors |-> Append(errors, "Internal")]

\* mod.rs, `match task.await`: a variant that puts each value in front.
CollectTaskNewestFirst(results, errors, task) ==
    CASE task.state = "ok" -> [results |-> <<task.value>> \o results, errors |-> errors]
      [] task.state = "err" -> [results |-> results, errors |-> Append(errors, task.kind)]
      [] task.state = "panic" -> [results |-> results, errors |-> Append(errors, "Internal")]

\* mod.rs, `match task.await`: push the value, the error, or Internal for a
\* JoinError.
CollectTask(results, errors, task) ==
    CASE task.state = "ok" -> [results |-> Append(results, task.value), errors |-> errors]
      [] task.state = "err" -> [results |-> results, errors |-> Append(errors, task.kind)]
      [] task.state = "panic" -> [results |-> results, errors |-> Append(errors, "Internal")]

\* availability.rs, `match task.await`.
ServiceCollectTask(results, errors, task) ==
    CASE task.state = "ok" -> [results |-> Append(results, task.value), errors |-> errors]
      [] task.state = "err" -> [results |-> results, errors |-> Append(errors, task.kind)]
      [] task.state = "panic" -> [results |-> results, errors |-> Append(errors, "Internal")]

\* One turn of the collecting loop, entered once every worker is spawned:
\* `task.await` on the next JoinHandle.
BatchAwait ==
    /\ bResp = NoBatchResponse
    /\ Len(bTasks) = Len(bIds)
    /\ bNext <= Len(bTasks)
    /\ bTasks[bNext].state /= "running"
    /\ LET acc == IF bImpl = "provider"
                    THEN CollectTask(bResults, bErrors, bTasks[bNext])
                    ELSE ServiceCollectTask(bResults, bErrors, bTasks[bNext])
       IN /\ bResults' = acc.results
          /\ bErrors' = acc.errors
    /\ bNext' = bNext + 1
    /\ UNCHANGED <<bImpl, bIds, bTasks, bResp, bFinished>>

\* mod.rs: the response, failing on any error.
BatchResponseFailingOnAnyError(results, errors) ==
    IF errors /= <<>>
      THEN [status |-> "Err", kind |-> "ExternalApi", message |-> FetchFailed, list |-> <<>>]
      ELSE [status |-> "Ok", kind |-> "", message |-> "", list |-> results]

\* mod.rs: `if results.is_empty() && !errors.is_empty()` .. `Ok(results)`.
BatchResponse(results, errors) ==
    IF results = <<>> /\ errors /= <<>>
      THEN [status |-> "Err", kind |-> "ExternalApi", message |-> FetchFailed, list |-> <<>>]
      ELSE [status |-> "Ok", kind |-> "", message |-> "", list |-> results]

\* availability.rs: the same test.
ServiceBatchResponse(results, errors) ==
    IF results = <<>> /\ errors /= <<>>
      THEN [status |-> "Err", kind |-> "ExternalApi", message |-> FetchFailed, list |-> <<>>]
      ELSE [status |-> "Ok", kind |-> "", message |-> "", list |-> results]

\* Every task has been awaited: fetch_availability_batch returns.
BatchFinish ==
    /\ bResp = NoBatchResponse
    /\ Len(bTasks) = Len(bIds)
    /\ bNext > Len(bTasks)
    /\ bResp' = IF bImpl = "provider" THEN BatchResponse(bResults, bErrors)
                ELSE ServiceBatchResponse(bResults, bErrors)
    /\ UNCHANGED <<bImpl, bIds, bTasks, bNext, bResults, bErrors, bFinished>>

BatchNext ==
    \/ BatchSpawn
    \/ WorkerStep
    \/ BatchAwait
    \/ BatchFinish

\* ------------------------------------------------------------------------
\* HTTP responses (error.rs, routes/)
\* ------------------------------------------------------------------------

MaxMsgLen == 2

NOT_FOUND == 404
BAD_REQUEST == 400
INTERNAL_SERVER_ERROR == 500
BAD_GATEWAY == 502
UNPROCESSABLE_ENTITY == 422
OK == 200

\* enum AppError, its variants.
AppErrorKinds == {"Database", "Cache", "HttpClient", "NotFound", "InvalidInput",
                  "ExternalApi", "Optimization", "Internal"}

\* The strings the variants carry (for Database, Cache and HttpClient the
\* text of the wrapped error): "", "a", "b", "aa", ...
Messages == UNION {[1..n -> {97, 98}] : n \in 0..MaxMsgLen}

AppError(kind, msg) == [kind |-> kind, msg |-> msg]

\* #[error("...: {0}")], the Display of an AppError: the variant's text,
\* then the carried string.
Display(err) ==
    CASE err.kind = "Database" -> <<"Database error: ", err.msg>>
      [] err.kind = "Cache" -> <<"Cache error: ", err.msg>>
      [] err.kind = "HttpClient" -> <<"HTTP client error: ", err.msg>>
      [] err.kind = "NotFound" -> <<"Not found: ", err.msg>>
      [] err.kind = "InvalidInput" -> <<"Invalid input: ", err.msg>>
      [] err.kind = "ExternalApi" -> <<"External API error: ", err.msg>>
      [] err.kind = "Optimization" -> <<"Optimization error: ", err.msg>>
      [] err.kind = "Internal" -> <<"Internal server error: ", err.msg>>

HttpResponse(status, body) == [status |-> status, body |-> body]

NoHttpResponse == HttpResponse(0, "")

\* A mapping that has no arm of its own for HttpClient and answers it as the
\* other wrapped errors.
IntoResponseHttpClientInternal(err) ==
    LET pair ==
            CASE err.kind = "NotFound" -> <<NOT_FOUND, <<err.msg>>>>
              [] err.kind = "InvalidInput" -> <<BAD_REQUEST, <<err.msg>>>>
              [] err.kind \in {"Database", "Cache", "Internal", "HttpClient"} ->
                    <<INTERNAL_SERVER_ERROR, Display(err)>>
              [] err.kind = "ExternalApi" -> <<BAD_GATEWAY, <<err.msg>>>>
              [] err.kind = "Optimization" -> <<UNPROCESSABLE_ENTITY, <<err.msg>>>>
    IN HttpResponse(pair[1], [error |-> pair[2]])

\* impl IntoResponse for AppError: the match gives (status, message), the
\* body is json!({"error": message}).
IntoResponse(err) ==
    LET pair ==
            CASE err.kind = "NotFound" -> <<NOT_FOUND, <<err.msg>>>>
              [] err.kind = "InvalidInput" -> <<BAD_REQUEST, <<err.msg>>>>
              [] err.kind \in {"Database", "Cache", "Internal"} ->
                    <<INTERNAL_SERVER_ERROR, Display(err)>>
              [] err.kind = "ExternalApi" -> <<BAD_GATEWAY, <<err.msg>>>>
              [] err.kind = "HttpClient" -> <<BAD_GATEWAY, Display(err)>>
              [] err.kind = "Optimization" -> <<UNPROCESSABLE_ENTITY, <<err.msg>>>>
    IN HttpResponse(pair[1], [error |-> pair[2]])

HandlerResult(status, value, error) == [status |-> status, value |-> value, error |-> error]

NoHandlerResult == HandlerResult("", "", AppError("", <<>>))

\* No request in hand.
HttpIdle ==
    /\ hResult = NoHandlerResult
    /\ hResp = NoHttpResponse

\* A route handler (optimize, search, recommend) returns its
\* AppResult<Json<T>>: Ok(Json(response)), or the error `?` passed on.
HandlerReturns(result) ==
    /\ hResult = NoHandlerResult
    /\ hResult' = result
    /\ UNCHANGED hResp

\* The AppResult is turned into the response: Json's for Ok, AppError's
\* into_response for Err.
Respond ==
    /\ hResult /= NoHandlerResult
    /\ hResp = NoHttpResponse
    /\ hResp' = IF hResult.status = "Ok" THEN HttpResponse(OK, hResult.value)
                ELSE IntoResponse(hResult.error)
    /\ UNCHANGED hResult

\* What a handler can return: Ok with its JSON payload, or any AppError.
HandlerResults ==
    {HandlerResult("Ok", "json", AppError("", <<>>))}
        \cup {HandlerResult("Err", "", AppError(kind, msg)) :
                   kind \in AppErrorKinds, msg \in Messages}

\* ------------------------------------------------------------------------
\* The in-memory API (models/user_preferences.rs, services/optimizer.rs)
\* ------------------------------------------------------------------------

NumPrefTitles == 2
NumServices == 2
MaxPrefCalls == 3

\* Title and service ids (Uuid) of the scenarios.
PrefTitles == 1..NumPrefTitles
GreedyServiceIds == 1..NumServices

\* enum Priority.
Priorities == {"MustHave", "NiceToHave"}

\* monthly_cost_cents of the scenarios.
GreedyCosts == {0, 5, 10}

\* StreamingService; available_titles holds no id twice (add_title), so a set.
StreamingService(id, cost, titles) ==
    [id |-> id, monthly_cost_cents |-> cost, available_titles |-> titles]

\* UserPreferences::new.
NewPreferences == [titles |-> <<>>, current_subscriptions |-> <<>>]

\* An add_title that always pushes.
AddTitleAlwaysPushing(prefs, title_id, priority) ==
    [prefs EXCEPT !.titles = Append(@, [title_id |-> title_id, priority |-> priority])]

\* UserPreferences::add_title: the first entry of the title gets the
\* priority, or a new entry is pushed.
AddTitle(prefs, title_id, priority) ==
    LET found == {i \in 1..Len(prefs.titles) : prefs.titles[i].title_id = title_id}
    IN IF found /= {}
         THEN LET first == CHOOSE i \in found : \A j \in found : i <= j
              IN [prefs EXCEPT !.titles[first].priority = priority]
         ELSE [prefs EXCEPT !.titles = Append(@, [title_id |-> title_id,
                                                   priority |-> priority])]

\* UserPreferences::add_subscription.
AddSubscription(prefs, service_id) ==
    IF \E i \in 1..Len(prefs.current_subscriptions) :
           prefs.current_subscriptions[i] = service_id
      THEN prefs
      ELSE [prefs EXCEPT !.current_subscriptions = Append(@, service_id)]

\* UserPreferences::must_have_titles / nice_to_have_titles.
TitlesWithPriority(prefs, priority) ==
    LET kept == SelectSeq(prefs.titles, LAMBDA t : t.priority = priority)
    IN [i \in 1..Len(kept) |-> kept[i].title_id]

MustHaveTitles(prefs) == TitlesWithPriority(prefs, "MustHave")
NiceToHaveTitles(prefs) == TitlesWithPriority(prefs, "NiceToHave")

\* The comparison of max_by: coverage per cent, f64::MAX for a service that
\* costs nothing.
CompareScore(a, b, uncovered) ==
    LET aCoverage == Cardinality(a.available_titles \cap uncovered)
        bCoverage == Cardinality(b.available_titles \cap uncovered)
    IN CASE a.monthly_cost_cents = 0 /\ b.monthly_cost_cents = 0 -> "Equal"
         [] a.monthly_cost_cents = 0 -> "Greater"
         [] b.monthly_cost_cents = 0 -> "Less"
         [] aCoverage * b.monthly_cost_cents > bCoverage * a.monthly_cost_cents -> "Greater"
         [] aCoverage * b.monthly_cost_cents < bCoverage * a.monthly_cost_cents -> "Less"
         [] OTHER -> "Equal"

RECURSIVE MaxBy(_, _, _)
\* Iterator::max_by from `best` over the rest: the last of the greatest.
MaxBy(best, rest, uncovered) ==
    IF rest = <<>> THEN best
    ELSE MaxBy(IF CompareScore(best, Head(rest), uncovered) = "Greater"
                 THEN best ELSE Head(rest),
               Tail(rest), uncovered)

GreedyResult(status, selected, cost, must, nice, unavailable) ==
    [status |-> status, recommended_services |-> selected,
     total_monthly_cost_cents |-> cost, must_have_covered |-> must,
     nice_to_have_covered |-> nice, unavailable_titles |-> unavailable]

NoGreedyResult == GreedyResult("", {}, 0, {}, {}, {})

RECURSIVE MustHaveLoopGivingUp(_, _, _, _)
\* A must-have loop that leaves with what it has when no service helps.
MustHaveLoopGivingUp(services, selected, covered, uncovered) ==
    IF uncovered = {} THEN [ok |-> TRUE, selected |-> selected, covered |-> covered]
    ELSE LET candidates == SelectSeq(services, LAMBDA sv : sv.id \notin selected)
         IN IF candidates = <<>>
              THEN [ok |-> TRUE, selected |-> selected, covered |-> covered]
            ELSE LET best == MaxBy(Head(candidates), Tail(candidates), uncovered)
                 IN IF best.available_titles \cap uncovered /= {}
                      THEN MustHaveLoopGivingUp(services, selected \cup {best.id},
                                                covered \cup best.available_titles,
                                                uncovered \ best.available_titles)
                      ELSE [ok |-> TRUE, selected |-> selected, covered |-> covered]

RECURSIVE MustHaveLoop(_, _, _, _)
\* `while !uncovered_must_have.is_empty()`: the best of the services not
\* yet selected is taken if it has an uncovered title, else NoSolution.
MustHaveLoop(services, selected, covered, uncovered) ==
    IF uncovered = {} THEN [ok |-> TRUE, selected |-> selected, covered |-> covered]
    ELSE LET candidates == SelectSeq(services, LAMBDA sv : sv.id \notin selected)
         IN IF candidates = <<>>
              THEN [ok |-> FALSE, selected |-> selected, covered |-> covered]
            ELSE LET best == MaxBy(Head(candidates), Tail(candidates), uncovered)
                 IN IF best.available_titles \cap uncovered /= {}
                      THEN MustHaveLoop(services, selected \cup {best.id},
                                        covered \cup best.available_titles,
                                        uncovered \ best.available_titles)
                      ELSE [ok |-> FALSE, selected |-> selected, covered |-> covered]

RECURSIVE NiceToHaveLoop(_, _, _, _)
\* `while !uncovered_nice_to_have.is_empty()`: the best of the unselected
\* services that have an uncovered title, until there is none.
NiceToHaveLoop(services, selected, covered, uncovered) ==
    IF uncovered = {} THEN [selected |-> selected, covered |-> covered]
    ELSE LET candidates ==
                 SelectSeq(services, LAMBDA sv :
                     sv.id \notin selected /\ sv.available_titles \cap uncovered /= {})
         IN IF candidates = <<>> THEN [selected |-> selected, covered |-> covered]
            ELSE LET best == MaxBy(Head(candidates), Tail(candidates), uncovered)
                 IN NiceToHaveLoop(services, selected \cup {best.id},
                                   covered \cup best.available_titles,
                                   uncovered \ best.available_titles)

RECURSIVE SumCost(_, _)
\* The sum of monthly_cost_cents over the selected services.
SumCost(services, selected) ==
    IF services = <<>> THEN 0
    ELSE (IF Head(services).id \in selected THEN Head(services).monthly_cost_cents ELSE 0)
         + SumCost(Tail(services), selected)

\* Optimizer::optimize.
GreedyOptimizeOf(services, prefs) ==
    LET mustHave == Range(MustHaveTitles(prefs))
        niceToHave == Range(NiceToHaveTitles(prefs))
        currentSubs == Range(prefs.current_subscriptions)
        subscribed == {i \in 1..Len(services) : services[i].id \in currentSubs}
        selected0 == {services[i].id : i \in subscribed}
        covered0 == UNION {services[i].available_titles : i \in subscribed}
        allAvailable == UNION {services[i].available_titles : i \in 1..Len(services)}
        unavailable == (mustHave \ allAvailable) \cup (niceToHave \ allAvailable)
        availableMust == mustHave \cap allAvailable
        must == MustHaveLoop(services, selected0, covered0, availableMust \ covered0)
        nice == NiceToHaveLoop(services, must.selected, must.covered,
                               (niceToHave \cap allAvailable) \ must.covered)
    IN IF services = <<>> THEN GreedyResult("NoServices", {}, 0, {}, {}, {})
       ELSE IF ~must.ok THEN GreedyResult("NoSolution", {}, 0, {}, {}, {})
       ELSE GreedyResult("Ok", nice.selected, SumCost(services, nice.selected),
                         mustHave \cap nice.covered, niceToHave \cap nice.covered,
                         unavailable)

\* The state of the other scenarios: no service, fresh preferences.
GreedyIdle ==
    /\ gServices = <<>>
    /\ gPrefs = NewPreferences
    /\ gAdds = <<>>
    /\ gResult = NoGreedyResult

\* AppState::new with the services created, in the order the map's values()
\* will give them: distinct ids, any cost, any titles.
GreedyInit ==
    /\ \E n \in 0..NumServices :
          /\ gServices \in [1..n -> {StreamingService(id, cost, titles) :
                                       id \in GreedyServiceIds, cost \in GreedyCosts,
                                       titles \in SUBSET PrefTitles}]
          /\ \A i, j \in 1..n : i /= j => gServices[i].id /= gServices[j].id
    /\ gPrefs = NewPreferences
    /\ gAdds = <<>>
    /\ gResult = NoGreedyResult

\* Calls that count against the bound: the add_title calls and the
\* add_subscription calls that added one.
PrefCalls == Len(gAdds) + Len(gPrefs.current_subscriptions)

\* handlers::add_title_preference.
AddTitlePreference(title_id, priority) ==
    /\ gResult = NoGreedyResult
    /\ PrefCalls < MaxPrefCalls
    /\ gPrefs' = AddTitle(gPrefs, title_id, priority)
    /\ gAdds' = Append(gAdds, [title_id |-> title_id, priority |-> priority])
    /\ UNCHANGED <<gServices, gResult>>

\* handlers::add_subscription.
AddSubscriptionRequest(service_id) ==
    /\ gResult = NoGreedyResult
    /\ PrefCalls < MaxPrefCalls
    /\ gPrefs' = AddSubscription(gPrefs, service_id)
    /\ UNCHANGED <<gServices, gAdds, gResult>>

\* handlers::optimize: Optimizer::new(&services, &preferences).optimize().
GreedyOptimize ==
    /\ gResult = NoGreedyResult
    /\ gResult' = GreedyOptimizeOf(gServices, gPrefs)
    /\ UNCHANGED <<gServices, gPrefs, gAdds>>

\* ------------------------------------------------------------------------
\* The legacy service's workers and the quota (services/availability.rs)
\* ------------------------------------------------------------------------

\* The workers fetch_availability_batch spawned, one per id.
QuotaWorkers == 1..MaxBatch

\* Every worker has missed the cache and is about to enter call_api.
QuotaIdle == qpc = [w \in QuotaWorkers |-> "call_api"]

\* check_rate_limit: the connection, then GET api_usage:<month> read as 0
\* when it fails (unwrap_or(0)); at the quota or above the call is refused.
CheckRateLimit(w, connOk, getOk) ==
    /\ qpc[w] = "call_api"
    /\ LET count == IF getOk THEN apiUsage ELSE 0
       IN qpc' = [qpc EXCEPT ![w] =
                     IF connOk /\ count < MONTHLY_QUOTA THEN "send" ELSE "failed"]
    /\ UNCHANGED apiUsage

\* call_api from the request to `response.json().await?`.
CallUpstream(w, ok) ==
    /\ qpc[w] = "send"
    /\ qpc' = [qpc EXCEPT ![w] = IF ok THEN "increment" ELSE "failed"]
    /\ UNCHANGED apiUsage

\* increment_api_usage: the connection, INCR of the monthly key, then the
\* EXPIRE and the daily key, any of which can fail after the INCR.
IncrementApiUsage(w, connOk, incrOk, restOk) ==
    /\ qpc[w] = "increment"
    /\ apiUsage' = IF connOk /\ incrOk THEN apiUsage + 1 ELSE apiUsage
    /\ qpc' = [qpc EXCEPT ![w] =
                  IF connOk /\ incrOk /\ restOk THEN "counted" ELSE "failed"]

QuotaNext ==
    \E w \in QuotaWorkers :
        \/ \E connOk \in BOOLEAN, getOk \in BOOLEAN : CheckRateLimit(w, connOk, getOk)
        \/ \E ok \in BOOLEAN : CallUpstream(w, ok)
        \/ \E connOk \in BOOLEAN, incrOk \in BOOLEAN, restOk \in BOOLEAN :
              IncrementApiUsage(w, connOk, incrOk, restOk)

\* ------------------------------------------------------------------------
\* Specifications
\* ------------------------------------------------------------------------

Init == CacheInit /\ OptIdle /\ FetchIdle /\ BatchIdle /\ HttpIdle /\ GreedyIdle /\ QuotaIdle

Next == CacheNext /\ UNCHANGED <<optVars, fetchVars, batchVars, httpVars, greedyVars, quotaVars>>

\* The cache, its writer task and main().
Spec == Init /\ [][Next]_vars

\* The runtime schedules the writer task and the remote store answers.
FairSpec == Spec /\ WF_vars(WriterStep /\ UNCHANGED <<optVars, fetchVars, batchVars, httpVars, greedyVars, quotaVars>>)

InitOpt == CacheInit /\ OptInit /\ FetchIdle /\ BatchIdle /\ HttpIdle /\ GreedyIdle /\ QuotaIdle

NextOpt == Optimize /\ UNCHANGED <<cacheVars, fetchVars, batchVars, httpVars, greedyVars, quotaVars>>

\* optimize_services over the requests, batches and catalogs of the bounds.
SpecOpt == InitOpt /\ [][NextOpt]_vars

NextFetch ==
    \/ FetchNext /\ UNCHANGED <<optVars, batchVars, httpVars, greedyVars, quotaVars>>
    \/ WriterRecvMsg /\ UNCHANGED <<optVars, fetchVars, batchVars, httpVars, greedyVars, quotaVars>>
    \/ \E ok \in BOOLEAN : WriterWriteDone(ok) /\ UNCHANGED <<optVars, fetchVars, batchVars, httpVars, greedyVars, quotaVars>>

\* Availability calls, one after the other, beside the writer task.
SpecFetch == Init /\ [][NextFetch]_vars

NextSearch ==
    \/ \E prov \in {"sa", "wm"}, query \in SearchQueries :
          SearchStart(prov, query) /\ UNCHANGED <<optVars, batchVars, httpVars, greedyVars, quotaVars>>
    \/ \E ok \in BOOLEAN : CachedGet(ok) /\ UNCHANGED <<optVars, batchVars, httpVars, greedyVars, quotaVars>>
    \/ \E resp \in TitleSearchResponses :
          fProv = "sa" /\ CachedCompute(resp) /\ UNCHANGED <<optVars, batchVars, httpVars, greedyVars, quotaVars>>
    \/ \E resp \in AutocompleteResponses :
          fProv = "wm" /\ CachedCompute(resp) /\ UNCHANGED <<optVars, batchVars, httpVars, greedyVars, quotaVars>>
    \/ FetchReturn /\ UNCHANGED <<optVars, batchVars, httpVars, greedyVars, quotaVars>>
    \/ WriterRecvMsg /\ UNCHANGED <<optVars, fetchVars, batchVars, httpVars, greedyVars, quotaVars>>
    \/ \E ok \in BOOLEAN : WriterWriteDone(ok) /\ UNCHANGED <<optVars, fetchVars, batchVars, httpVars, greedyVars, quotaVars>>

\* Title searches, one after the other, beside the writer task.
SpecSearch == Init /\ [][NextSearch]_vars

InitBatch == CacheInit /\ OptIdle /\ FetchIdle /\ BatchInit /\ HttpIdle /\ GreedyIdle /\ QuotaIdle

NextBatch == BatchNext /\ UNCHANGED <<cacheVars, optVars, fetchVars, httpVars, greedyVars, quotaVars>>

\* One fetch_availability_batch call and its workers.
SpecBatch == InitBatch /\ [][NextBatch]_vars

NextProviders ==
    \/ \E prov \in {"sa", "wm"}, id \in FetchIds :
          FetchStart(prov, id) /\ UNCHANGED <<optVars, batchVars, httpVars, greedyVars, quotaVars>>
    \/ \E prov \in {"sa", "wm"}, query \in SearchQueries :
          SearchStart(prov, query) /\ UNCHANGED <<optVars, batchVars, httpVars, greedyVars, quotaVars>>
    \/ \E ok \in BOOLEAN : CachedGet(ok) /\ UNCHANGED <<optVars, batchVars, httpVars, greedyVars, quotaVars>>
    \/ \E resp \in ShowResponses \cup SearchResponses \cup DetailResponses :
          /\ fStage /= "search"
          /\ CachedCompute(resp) /\ UNCHANGED <<optVars, batchVars, httpVars, greedyVars, quotaVars>>
    \/ \E resp \in TitleSearchResponses :
          /\ nextId < MaxFetchMsgs /\ fStage = "search" /\ fProv = "sa"
          /\ CachedCompute(resp) /\ UNCHANGED <<optVars, batchVars, httpVars, greedyVars, quotaVars>>
    \/ \E resp \in AutocompleteResponses :
          /\ nextId < MaxFetchMsgs /\ fStage = "search" /\ fProv = "wm"
          /\ CachedCompute(resp) /\ UNCHANGED <<optVars, batchVars, httpVars, greedyVars, quotaVars>>
    \/ FetchReturn /\ UNCHANGED <<optVars, batchVars, httpVars, greedyVars, quotaVars>>
    \/ WriterRecvMsg /\ UNCHANGED <<optVars, fetchVars, batchVars, httpVars, greedyVars, quotaVars>>
    \/ \E ok \in BOOLEAN : WriterWriteDone(ok) /\ UNCHANGED <<optVars, fetchVars, batchVars, httpVars, greedyVars, quotaVars>>

\* Both providers serving title searches and availability calls, one after
\* the other, beside the writer task; no upstream request is made once
\* MaxFetchMsgs writes were offered.
SpecProviders == Init /\ [][NextProviders]_vars

NextGreedy ==
    \/ \E t \in PrefTitles, p \in Priorities :
          AddTitlePreference(t, p) /\ UNCHANGED <<cacheVars, optVars, fetchVars, batchVars, httpVars, quotaVars>>
    \/ \E sid \in GreedyServiceIds :
          AddSubscriptionRequest(sid) /\ UNCHANGED <<cacheVars, optVars, fetchVars, batchVars, httpVars, quotaVars>>
    \/ GreedyOptimize /\ UNCHANGED <<cacheVars, optVars, fetchVars, batchVars, httpVars, quotaVars>>

InitGreedy == CacheInit /\ OptIdle /\ FetchIdle /\ BatchIdle /\ HttpIdle /\ GreedyInit /\ QuotaIdle

\* The in-memory API: preferences built call by call, then one optimize.
SpecGreedy == InitGreedy /\ [][NextGreedy]_vars

NextQuota ==
    /\ QuotaNext
    /\ UNCHANGED <<fProv, fHad, fId, fpc, fStage, fKey, fWm, fApi, fTrace, fResult, searched>>
    /\ UNCHANGED <<cacheVars, optVars, batchVars, httpVars, greedyVars>>

\* The workers of one batch of the legacy service in call_api, the month's
\* counter UsageHeadroom below the quota.
SpecQuota == Init /\ [][NextQuota]_vars

NextHttp ==
    \/ \E result \in HandlerResults :
          HandlerReturns(result) /\ UNCHANGED <<cacheVars, optVars, fetchVars, batchVars, greedyVars, quotaVars>>
    \/ Respond /\ UNCHANGED <<cacheVars, optVars, fetchVars, batchVars, greedyVars, quotaVars>>

\* One request answered by a route handler.
SpecHttp == Init /\ [][NextHttp]_vars

\* ------------------------------------------------------------------------
\* Claims on the writer's shutdown
\* ------------------------------------------------------------------------

\* A write of message id was attempted (it reached SET EX, whatever the
\* outcome).
Attempted(id) == \E i \in 1..Len(attempts) : attempts[i].id = id

\* The writer task is over: it returned, or it was cancelled with the runtime.
WriterOver == wpc \in {"stopped", "aborted"}

\* C1: every message accepted before shutdown() sent its signal has been
\* handed to the remote store by the time the writer task is over, so that
\* such a message can only be lost to a failure of its own write.
C1_FlushBeforeExit ==
    WriterOver => \A id \in beforeSig : Attempted(id)

\* C2: once shutdown() has returned to shutdown_signal, the writer task has
\* flushed every message accepted before the signal and has exited.
C2_ShutdownAwaitsExit ==
    mainpc \in {"stopping", "served", "exited"} =>
        /\ wpc = "stopped"
        /\ \A id \in beforeSig : Attempted(id)

\* C3: after the writer has received the shutdown signal its task eventually
\* ends (here even a cancellation counts), whether or not Cache clones are
\* still alive.
C3_WriterTerminates == sigSeen ~> WriterOver

\* ------------------------------------------------------------------------
\* Claims on the optimizer
\* ------------------------------------------------------------------------

\* Title t has a subscription-type entry for service sid in the batch.
OnSubscription(t, sid) ==
    \E i \in 1..Len(optAvail[t]) :
        /\ optAvail[t][i].availability_type = "subscription"
        /\ optAvail[t][i].service_id = sid

\* The requested must-have titles with at least one subscription service.
AvailableMustHave ==
    {t \in Titles : optRole[t] = "must" /\ \E sid \in ServiceIds : OnSubscription(t, sid)}

\* A set of services covers every available must-have title.
CoversMustHave(sel) ==
    \A t \in AvailableMustHave : \E sid \in sel : OnSubscription(t, sid)

RECURSIVE MonthlyCost(_)
\* Total monthly cost of a set of catalog services.
MonthlyCost(sel) ==
    IF sel = {} THEN 0
    ELSE LET sid == CHOOSE x \in sel : TRUE
         IN optCost[sid] + MonthlyCost(sel \ {sid})

\* optimize_services has answered with a list of configurations.
Answered == optResp.status = "Ok"

\* C4: in every returned configuration each available must-have title has
\* one of its subscription services among the selected services.
C4_MustHaveCovered ==
    Answered =>
        \A i \in 1..Len(optResp.configurations) :
            CoversMustHave(Range(optResp.configurations[i].services))

\* C4 witness: a configuration was returned for a request with an available
\* must-have title that two services carry, one of them left out.
C4_Witness ==
    /\ Answered
    /\ optResp.configurations /= <<>>
    /\ \E t \in AvailableMustHave :
          /\ OnSubscription(t, Hulu) /\ OnSubscription(t, Netflix)
          /\ Len(optResp.configurations[1].services) = 1

\* C5: when configurations is non-empty, no set of catalog services covering
\* every available must-have title costs strictly less than configurations[0].
C5_FirstIsCostOptimal ==
    (Answered /\ optResp.configurations /= <<>>) =>
        \A sel \in SUBSET {sid \in ServiceIds : optCost[sid] /= Inactive} :
            CoversMustHave(sel) =>
                MonthlyCost(sel) >= optResp.configurations[1].total_cost

\* ------------------------------------------------------------------------
\* Claims on the availability calls
\* ------------------------------------------------------------------------

\* C6: a successful fetch_availability(t) of either provider returns a
\* StreamingAvailability whose id is t, built from the upstream answer or
\* read from the cache entry keyed by display(t).
C6_IdEqualsRequested ==
    (fpc = "done" /\ fProv \in {"sa", "wm"} /\ fResult.status = "Ok") =>
        fResult.value.av.id = fId

\* The events the step adds to the call's trace.
NewEvents ==
    IF Len(fTrace') > Len(fTrace) THEN SubSeq(fTrace', Len(fTrace) + 1, Len(fTrace'))
    ELSE <<>>

\* Upstream calls among a sequence of events.
Computes(events) == Len(SelectSeq(events, LAMBDA e : e.op = "compute"))

\* The TTL a cached! on a key of this kind is invoked with.
TtlOfKey(key) == IF key.kind = "ImdbToWatchmode" THEN IMDB_MAPPING_TTL ELSE AVAIL_CACHE_TTL

\* The type a cached! on a key of this kind is invoked with.
TypeOfKey(key) == IF key.kind = "ImdbToWatchmode" THEN "u64" ELSE "StreamingAvailability"

\* One step of a provider call, as cached! promises it.
CachedStep ==
    LET new == NewEvents
        last == new[Len(new)]
    IN (fProv' \in {"sa", "wm"} /\ new /= <<>>) =>
        /\ (new[1].op = "get" /\ new[1].res = "some") =>
              /\ Computes(new) = 0
              /\ queue' = queue /\ nextId' = nextId
              /\ last.op = "return" /\ last.res = "Ok" /\ last.value = new[1].value
        /\ (new[1].op = "get" /\ new[1].res = "none") =>
              /\ Len(new) = 1
              /\ fpc' = "compute"
              /\ queue' = queue /\ nextId' = nextId
        /\ new[1].op = "compute" =>
              /\ Computes(new) = 1
              /\ fTrace /= <<>>
              /\ fTrace[Len(fTrace)].op = "get"
              /\ fTrace[Len(fTrace)].res = "none"
              /\ fTrace[Len(fTrace)].key = new[1].key
              /\ new[1].res = "ok" =>
                    /\ nextId' = nextId + 1
                    /\ queue' = Append(queue,
                          [id |-> nextId + 1,
                           key |-> DisplayKey(new[1].key),
                           value |-> ToJson(new[1].value, TypeOfKey(new[1].key)),
                           ttl |-> TtlOfKey(new[1].key)])
                    /\ last.op = "return" /\ last.res = "Ok"
                    /\ last.value = new[1].value

\* C9: cached! on a hit returns the cached value, runs no compute and
\* enqueues nothing; on a miss it runs compute once and, when compute gives
\* r, enqueues the one write (key, r, ttl) and returns r.
C9_CachedComposition == [][CachedStep]_vars

\* C9 witness: one call missed on its first cached!, computed and enqueued,
\* and hit on its second.
C9_Witness ==
    /\ fpc = "done"
    /\ fResult.status = "Ok"
    /\ \E i, j \in 1..Len(fTrace) :
          /\ i < j
          /\ fTrace[i].op = "compute" /\ fTrace[i].res = "ok"
          /\ fTrace[j].op = "get" /\ fTrace[j].res = "some"

\* C10: a store failure on the read-through get ends the call with a Cache
\* error and no compute after it; a store failure on the write of the
\* cached value leaves the call's result Ok. (The writer task's failures
\* reach no caller: no step of the writer touches a call's result.)
C10_CacheFailureAsymmetry ==
    fpc = "done" =>
        \A i \in 1..Len(fTrace) :
            /\ (fTrace[i].op = "get" /\ fTrace[i].res = "fail") =>
                  /\ fResult = Err("Cache")
                  /\ \A j \in (i + 1)..Len(fTrace) : fTrace[j].op /= "compute"
            /\ (fTrace[i].op = "write" /\ fTrace[i].res = "fail") =>
                  fResult.status = "Ok"

\* ------------------------------------------------------------------------
\* Claims on the batcher
\* ------------------------------------------------------------------------

Succeeded == {i \in 1..Len(bTasks) : bTasks[i].state = "ok"}
Failed == {i \in 1..Len(bTasks) : bTasks[i].state \in {"err", "panic"}}
Returned == bResp.status /= ""

\* C7: the batch fails, with ExternalApi("Failed to fetch any availability
\* data"), exactly when some worker failed and none succeeded; a success
\* makes it Ok, and so does an empty id list, with an empty list.
C7_FailsIffNoSuccess ==
    Returned =>
        /\ (bResp.status = "Err") <=> (Failed /= {} /\ Succeeded = {})
        /\ bResp.status = "Err" =>
              bResp.kind = "ExternalApi" /\ bResp.message = FetchFailed
        /\ Succeeded /= {} => bResp.status = "Ok"
        /\ bIds = <<>> => (bResp.status = "Ok" /\ bResp.list = <<>>)

\* C7 witness: a batch of several ids returned Ok although a worker failed.
C7_Witness ==
    /\ Returned
    /\ bResp.status = "Ok"
    /\ Failed /= {}
    /\ Len(bIds) > 1

\* C8: one worker per requested id, duplicates included; the batch returns
\* only after every worker has ended; an Ok list holds one entry for each
\* worker that succeeded, whatever the others did.
C8_PartialFailurePolicy ==
    /\ Len(bTasks) <= Len(bIds)
    /\ \A i \in 1..Len(bTasks) : bTasks[i].id = bIds[i]
    /\ Returned =>
          /\ Len(bTasks) = Len(bIds)
          /\ \A i \in 1..Len(bTasks) : bTasks[i].state /= "running"
    /\ (Returned /\ bResp.status = "Ok") =>
          /\ Len(bResp.list) = Cardinality(Succeeded)
          /\ \A v \in {bTasks[i].value : i \in Succeeded} :
                Cardinality({k \in 1..Len(bResp.list) : bResp.list[k] = v})
                    = Cardinality({i \in Succeeded : bTasks[i].value = v})

\* C8 witness: an Ok batch naming one id twice, both of its workers
\* succeeding and a third worker panicking.
C8_Witness ==
    /\ Returned
    /\ bResp.status = "Ok"
    /\ \E i, j, k \in 1..Len(bTasks) :
          /\ i < j
          /\ bIds[i] = bIds[j]
          /\ bTasks[i].state = "ok" /\ bTasks[j].state = "ok"
          /\ bTasks[k].state = "panic"

\* ------------------------------------------------------------------------
\* Claims on the writer's writes
\* ------------------------------------------------------------------------

\* The messages not yet given to SET EX, oldest first: the one in the
\* writer's hands, then the channel.
InFlight == (IF cur.id = 0 THEN <<>> ELSE <<cur>>) \o queue

\* The newest message for wire key w that is still in flight carries v.
Pending(w, v) ==
    \E i \in 1..Len(InFlight) :
        /\ InFlight[i].key = w
        /\ InFlight[i].value = v
        /\ \A j \in (i + 1)..Len(InFlight) : InFlight[j].key /= w

\* get(w) yields Some(v).
Visible(w, v) == store[w].ttl > 0 /\ store[w].value = v

\* The remote store failed a write.
WriteFailed == \E i \in 1..Len(attempts) : ~attempts[i].ok

\* C11: a value enqueued for a key and not yet overtaken by a later write
\* to that key becomes visible to get, unless the remote store fails a
\* write (TTLs do not elapse in the model; the writer is scheduled fairly).
C11_EventuallyVisible ==
    \A w \in WireKeys, v \in WriterValues :
        Pending(w, v) ~> (Visible(w, v) \/ WriteFailed)

\* C12: the writer hands messages to the store in the order the channel
\* accepted them (a producer's own messages are accepted in its call
\* order), in normal mode and in the drain; so once nothing is in flight
\* and no write failed, each key holds the value last enqueued for it.
C12_SingleProducerFifo ==
    /\ Len(attempts) <= Len(accepted)
    /\ \A i \in 1..Len(attempts) : attempts[i].id = accepted[i].id
    /\ (InFlight = <<>> /\ ~WriteFailed) =>
          \A i \in 1..Len(accepted) :
              (\A j \in (i + 1)..Len(accepted) : accepted[j].key /= accepted[i].key) =>
                  store[accepted[i].key] =
                      [value |-> accepted[i].value, ttl |-> accepted[i].ttl]

\* C12 witness: two values enqueued for one key, the second of them flushed
\* by the shutdown drain, nothing left in flight and no write failed.
C12_Witness ==
    /\ Len(accepted) >= 2
    /\ accepted[1].key = accepted[2].key
    /\ accepted[1].value /= accepted[2].value
    /\ Len(attempts) = Len(accepted)
    /\ ~WriteFailed
    /\ sigSeen
    /\ store[accepted[2].key].value = accepted[2].value

\* C13: once the writer has received the shutdown signal, only messages the
\* channel had accepted by then are handed to the remote store; one
\* enqueued afterwards is never written.
C13_NoWritesAfterSignal ==
    sigSeen =>
        \A i \in 1..Len(attempts) :
            \E j \in 1..atSignal : accepted[j].id = attempts[i].id

\* ------------------------------------------------------------------------
\* Claims on title search
\* ------------------------------------------------------------------------

\* Scenario S6 has run on an empty cache: search("In") then search("IN") on
\* one provider, both answered.
ScenarioS6 ==
    /\ Len(searched) = 2
    /\ searched[1].query = <<73, 110>>
    /\ searched[2].query = <<73, 78>>
    /\ searched[1].prov = searched[2].prov
    /\ searched[1].result.status /= ""
    /\ searched[2].result.status /= ""

\* C14 as stated: the two searches of scenario S6, both answered with
\* titles, together cause exactly one upstream search call.
C14_OneUpstreamCall ==
    (/\ ScenarioS6
     /\ searched[1].result.status = "Ok"
     /\ searched[2].result.status = "Ok")
    => searched[1].upstream + searched[2].upstream = 1

\* C14, amended: the two searches of scenario S6 read the same cache entry;
\* when the first search called upstream and the entry it enqueued was in the
\* store by the time the second search read the cache, the second search
\* sends no request (one upstream call in all) and a successful second
\* search returns what the first returned.
C14_SameEntryOnceStored ==
    /\ DisplayKey(TitleSearch(<<73, 110>>)) = DisplayKey(TitleSearch(<<73, 78>>))
    /\ (/\ ScenarioS6
        /\ searched[1].upstream = 1
        /\ DisplayKey(TitleSearch(searched[1].query)) \in searched[2].present)
       => /\ searched[2].upstream = 0
          /\ searched[2].result.status = "Ok" =>
                searched[2].result = searched[1].result

C14_Witness ==
    /\ ScenarioS6
    /\ searched[1].upstream = 1
    /\ DisplayKey(TitleSearch(searched[1].query)) \in searched[2].present
    /\ searched[2].upstream = 0
    /\ searched[2].result.status = "Ok"
    /\ searched[2].result.value.titles /= <<>>
    /\ searched[1].prov = "wm"

\* ------------------------------------------------------------------------
\* Claims on the cache gate of the providers
\* ------------------------------------------------------------------------

\* The call in hand sent an upstream request.
SentRequest == \E i \in 1..Len(fTrace) : fTrace[i].op = "compute"

\* C15: a provider's fetch_availability called while the store holds the
\* Availability entry of the requested id sends no upstream request, and
\* fails only on a failing cache read.
C15_CacheGated ==
    (fProv \in {"sa", "wm"} /\ fStage /= "search" /\ fHad) =>
        /\ ~SentRequest
        /\ fpc = "done" /\ fResult.status = "Err" =>
              fResult.kind = "Cache"

\* ------------------------------------------------------------------------
\* Claims on the returned configurations
\* ------------------------------------------------------------------------

\* C16: in every optimization response no returned configuration has a
\* total_cost below that of configurations[0], whichever optimum the solver
\* returned at each weight.
C16_FirstIsCheapestReturned ==
    Answered =>
        \A i \in 1..Len(optResp.configurations) :
            optResp.configurations[1].total_cost
                <= optResp.configurations[i].total_cost

\* C16 witness: two configurations, the second dearer than the first, for a
\* request whose first weight has more than one optimum.
C16_Witness ==
    /\ Answered
    /\ Len(optResp.configurations) >= 2
    /\ optResp.configurations[1].total_cost < optResp.configurations[2].total_cost
    /\ Cardinality({p[1] : p \in SolverPicks(RequestOf(optRole), optAvail, optCost)}) > 1

\* The ids of the services a configuration lists.
ServiceIdSet(config) == Range(config.services)

\* C17: no two returned configurations list the same set of service ids.
C17_DistinctServiceSets ==
    Answered =>
        \A i \in 1..Len(optResp.configurations) :
            \A j \in (i + 1)..Len(optResp.configurations) :
                ServiceIdSet(optResp.configurations[i])
                    /= ServiceIdSet(optResp.configurations[j])

\* C17 witness: the solver returned the same selection at the first two
\* weights and another one later; the response lists each once.
C17_Witness ==
    /\ Answered
    /\ Len(optPicks) = 5
    /\ optPicks[1].ok /\ optPicks[2].ok /\ optPicks[1].sel = optPicks[2].sel
    /\ optPicks[1].sel /= {}
    /\ optPicks[5].sel /= optPicks[1].sel
    /\ Len(optResp.configurations) = 2

\* The service catalog of the request in hand: the active rows of the
\* subscription services its batch names.
CatalogIds ==
    {sid \in ServiceIds :
        /\ optCost[sid] /= Inactive
        /\ \E t \in Titles : optRole[t] /= "none" /\ OnSubscription(t, sid)}

\* C18: the total_cost of every returned configuration is the sum of the
\* monthly costs of the services it lists, each of them a catalog entry, none
\* listed twice.
C18_TotalCostIsSumOfListed ==
    Answered =>
        \A i \in 1..Len(optResp.configurations) :
            LET c == optResp.configurations[i]
            IN /\ Cardinality(ServiceIdSet(c)) = Len(c.services)
               /\ ServiceIdSet(c) \subseteq CatalogIds
               /\ c.total_cost = MonthlyCost(ServiceIdSet(c))

\* C18 witness: a configuration of one service beside one of two, out of a
\* catalog of two services with different costs.
C18_Witness ==
    /\ Answered
    /\ CatalogIds = ServiceIds
    /\ optCost[Hulu] /= optCost[Netflix]
    /\ \E i, j \in 1..Len(optResp.configurations) :
          /\ Len(optResp.configurations[i].services) = 1
          /\ Len(optResp.configurations[j].services) = 2
          /\ optResp.configurations[j].total_cost = optCost[Hulu] + optCost[Netflix]

\* C19: a successful response has no configuration exactly when no requested
\* must-have title is available, a request without must-have titles included.
C19_EmptyIffNoAvailableMustHave ==
    Answered => (optResp.configurations = <<>> <=> AvailableMustHave = {})

\* Every requested title was fetched: the batch holds an entry for each.
AllFetched == \A t \in Titles : optRole[t] /= "none" => optAvail[t] /= Missing

\* C20: a request with must-have titles, every title fetched and no must-have
\* title available, is answered with a successful response that has no
\* configuration and lists every must-have title as unavailable.
C20_AllMustHaveUnavailable ==
    (/\ optResp /= NoResponse
     /\ RequestOf(optRole).must_have /= <<>>
     /\ AllFetched
     /\ AvailableMustHave = {})
    => /\ Answered
       /\ optResp.configurations = <<>>
       /\ optResp.unavailable_must_have = RequestOf(optRole).must_have

\* ------------------------------------------------------------------------
\* Claims on the optimizer's errors and accounting
\* ------------------------------------------------------------------------

\* optimize_services has returned, a response or an error.
OptReturned == optResp /= NoResponse

\* The batch holds at least one of the requested titles.
SomeFetched == \E t \in Titles : optRole[t] /= "none" /\ optAvail[t] /= Missing

\* C21: when no subscription service of a fetched title is an active catalog
\* row, optimize_services fails with an Optimization error and gives no
\* response.
C21_EmptyCatalogFails ==
    (OptReturned /\ SomeFetched /\ CatalogIds = {}) =>
        optResp = ErrResponse("Optimization")

\* C21 witness: the error for a fetched title on a subscription service that
\* has no active row.
C21_Witness ==
    /\ optResp = ErrResponse("Optimization")
    /\ \E t \in Titles : optRole[t] = "must" /\ OnSubscription(t, Netflix)
    /\ optCost[Netflix] = Inactive

\* The coverage constraints cannot be met: some available must-have title
\* has none of its subscription services in a non-empty catalog.
Infeasible ==
    /\ CatalogIds /= {}
    /\ \E t \in AvailableMustHave :
          \A sid \in CatalogIds : ~OnSubscription(t, sid)

\* C22: a request whose coverage constraints the catalog cannot satisfy is
\* answered with an Optimization error, not with a response.
C22_InfeasibleIsAnError ==
    (OptReturned /\ Infeasible) => optResp = ErrResponse("Optimization")

\* The batch holds a subscription-type service for title t.
HasSubscription(t) == \E sid \in ServiceIds : OnSubscription(t, sid)

\* C23: the unavailable lists of a response are the requested must-have
\* (nice-to-have) titles for which the batch holds no subscription-type
\* service, a failed fetch included; the other must-have titles are the ones
\* every configuration counts as covered.
C23_UnavailabilityAccounting ==
    Answered =>
        LET req == RequestOf(optRole)
        IN /\ optResp.unavailable_must_have =
                 SelectSeq(req.must_have, LAMBDA t : ~HasSubscription(t))
           /\ optResp.unavailable_nice_to_have =
                 SelectSeq(req.nice_to_have, LAMBDA t : ~HasSubscription(t))
           /\ \A i \in 1..Len(optResp.configurations) :
                 optResp.configurations[i].must_have_coverage =
                     Len(SelectSeq(req.must_have, HasSubscription))

\* C23 witness: a must-have title on subscription beside a nice-to-have
\* title that can only be rented, in a response with a configuration.
C23_Witness ==
    /\ Answered
    /\ optResp.configurations /= <<>>
    /\ optResp.unavailable_must_have = <<>>
    /\ \E t \in Titles :
          /\ optAvail[t] = <<Rent(Hulu)>>
          /\ optResp.unavailable_nice_to_have = <<t, t>>

\* The distinct nice-to-have titles with a subscription service among the
\* services a configuration lists.
NiceTitlesCovered(config) ==
    {t \in Titles :
        /\ optRole[t] \in {"nice", "nice2"}
        /\ \E sid \in ServiceIdSet(config) : OnSubscription(t, sid)}

\* C24: nice_to_have_coverage of every configuration is the number of
\* distinct nice-to-have titles one of its services carries, however often
\* the request lists a title.
C24_CoverageCountsDistinctTitles ==
    Answered =>
        \A i \in 1..Len(optResp.configurations) :
            optResp.configurations[i].nice_to_have_coverage =
                Cardinality(NiceTitlesCovered(optResp.configurations[i]))

\* generate_configurations ran: the request passed the checks of
\* optimize_services and the early return of solve_optimization.
Solved ==
    /\ Answered
    /\ ~(AvailableMustHave = {} /\ RequestOf(optRole).must_have /= <<>>)

\* The pairs (t, s) of a nice-to-have title t and a service s of the
\* selection that carries t by subscription.
NicePairs(sel) ==
    {p \in Titles \X sel :
        optRole[p[1]] \in {"nice", "nice2"} /\ OnSubscription(p[1], p[2])}

\* Cost of a selection minus w for each of its pairs.
WeightedCost(sel, w) == MonthlyCost(sel) - w * Cardinality(NicePairs(sel))

\* C25: at each of the five weights the selection find_solution returns
\* covers the available must-have titles and no covering selection of
\* catalog services has a lower cost minus weight times pairs.
C25_MinimisesWeightedCost ==
    Solved =>
        \A i \in 1..Len(Weights) :
            optPicks[i].ok =>
                /\ optPicks[i].sel \subseteq CatalogIds
                /\ CoversMustHave(optPicks[i].sel)
                /\ \A other \in SUBSET CatalogIds :
                      CoversMustHave(other) =>
                          WeightedCost(optPicks[i].sel, Weights[i])
                              <= WeightedCost(other, Weights[i])

\* ------------------------------------------------------------------------
\* Claims on the Watchmode provider's ids
\* ------------------------------------------------------------------------

\* Positions of the events of the call in hand on a mapping key.
MappingEvents(op) ==
    {i \in 1..Len(fTrace) :
        fTrace[i].op = op /\ fTrace[i].key.kind = "ImdbToWatchmode"}

\* C26: a Watchmode fetch_availability sends the id-conversion request only
\* for an Imdb id whose mapping its cache read did not find, never goes on to
\* the availability of an Imdb id without the mapping read or converted, and
\* for a Watchmode id uses the id as it is, touching no mapping key.
C26_IdResolution ==
    (fProv = "wm" /\ fStage /= "search") =>
        /\ \A i \in MappingEvents("compute") :
              /\ fId.kind = "Imdb"
              /\ fTrace[i].key = ImdbToWatchmode(fId.imdb)
              /\ \E j \in MappingEvents("get") : j < i /\ fTrace[j].res = "none"
        /\ (fId.kind = "Imdb" /\ fStage = "avail") =>
              \/ \E j \in MappingEvents("get") :
                    fTrace[j].res = "some" /\ fTrace[j].value.num = fWm
              \/ \E i \in MappingEvents("compute") : fTrace[i].value.num = fWm
        /\ (fId.kind = "Imdb" /\ \E j \in MappingEvents("get") : fTrace[j].res = "some")
              => MappingEvents("compute") = {}
        /\ fId.kind = "Watchmode" =>
              /\ fWm = fId.wm
              /\ \A i \in 1..Len(fTrace) : fTrace[i].key.kind /= "ImdbToWatchmode"

\* C26 witness: an Imdb id converted upstream, the availability then
\* fetched under the id the conversion gave.
C26_Witness ==
    /\ fProv = "wm"
    /\ fId.kind = "Imdb"
    /\ fpc = "done"
    /\ fResult.status = "Ok"
    /\ MappingEvents("compute") /= {}
    /\ fWm = WatchmodeSeven

\* The messages a step put on the writer channel.
Enqueued == SubSeq(accepted', Len(accepted) + 1, Len(accepted'))

\* A message on an ImdbToWatchmode key.
IsMappingWrite(msg) == SubSeq(msg.key, 1, Len(PrefixImdb2wm)) = PrefixImdb2wm

\* The step enqueued one mapping write per result carrying an imdb_id, each
\* imdb2wm:<imdb_id> = id with the mapping TTL, and the call returns a title
\* for every result.
CachesMappingsOf(results) ==
    LET carrying == {i \in 1..Len(results) : results[i].imdb_id /= <<>>}
        written == {k \in 1..Len(Enqueued) : IsMappingWrite(Enqueued[k])}
    IN /\ Cardinality(written) = Cardinality(carrying)
       /\ \A i \in carrying :
             \E k \in written :
                 /\ Enqueued[k].key = DisplayKey(ImdbToWatchmode(results[i].imdb_id[1]))
                 /\ Enqueued[k].value = ToJson(NumValue(results[i].id), "u64")
                 /\ Enqueued[k].ttl = IMDB_MAPPING_TTL
       /\ fResult'.value.titles =
             [i \in 1..Len(results) |-> Watchmode(results[i].id)]

\* A step of a Watchmode search_titles: its cache read, or its block.
MappingCachingStep ==
    (fProv = "wm" /\ fStage = "search" /\ fpc' /= fpc) =>
        CASE fpc = "get" -> Enqueued = <<>>
          [] fpc = "compute" /\ fResult'.status = "Ok" ->
                \E resp \in AutocompleteResponses :
                    resp.net = "ok" /\ CachesMappingsOf(resp.results)
          [] fpc = "compute" /\ fResult'.status /= "Ok" -> Enqueued = <<>>
          [] OTHER -> TRUE

\* C27: a Watchmode search that reaches upstream enqueues exactly one
\* ImdbToWatchmode write for each result carrying an imdb_id, none for the
\* others, and returns every result; a search served from the cache
\* enqueues nothing.
C27_OpportunisticMappings == [][MappingCachingStep]_vars

\* C27 witness: a search that reached upstream and enqueued one mapping for
\* its two results, then a search served from the cache that enqueued none.
C27_Witness ==
    /\ Len(searched) = 2
    /\ searched[1].prov = "wm" /\ searched[2].prov = "wm"
    /\ searched[1].upstream = 1
    /\ Len(searched[1].result.value.titles) = 2
    /\ searched[2].upstream = 0
    /\ searched[2].result.status = "Ok"
    /\ Len(SelectSeq(accepted, IsMappingWrite)) = 1
    /\ Len(accepted) = 2

\* The search in hand got its titles from upstream and returned them.
SearchComputed ==
    /\ fStage = "search"
    /\ fpc = "done"
    /\ fResult.status = "Ok"
    /\ \E i \in 1..Len(fTrace) : fTrace[i].op = "compute"

\* The id the claim gives the Title of an upstream result.
ClaimedTitleId(prov, dto) ==
    IF prov = "wm" THEN Watchmode(dto.id)
    ELSE IF dto.imdb_id /= <<>> THEN Imdb(dto.imdb_id[1])
    ELSE Imdb(dto.id)

ClaimedStatus(kind) ==
    CASE kind = "InvalidInput" -> 400
      [] kind = "NotFound" -> 404
      [] kind \in {"ExternalApi", "HttpClient"} -> 502
      [] kind = "Optimization" -> 422
      [] kind \in {"Cache", "Database", "Internal"} -> 500
      [] OTHER -> 0

\* A handler's error was answered.
ErrorAnswered == hResult.status = "Err" /\ hResp /= NoHttpResponse

\* C29: every AppError a handler returns is answered with the status of its
\* kind (400 InvalidInput, 404 NotFound, 502 ExternalApi and HttpClient,
\* 422 Optimization, 500 Cache, Database and Internal) and a body that is an
\* object with the one field "error".
C29_StatusOfError ==
    ErrorAnswered =>
        /\ hResp.status = ClaimedStatus(hResult.error.kind)
        /\ hResp.status /= 0
        /\ DOMAIN hResp.body = {"error"}

\* C29 witness: an upstream HTTP-client failure answered with 502.
C29_Witness ==
    /\ ErrorAnswered
    /\ hResult.error.kind = "HttpClient"
    /\ hResult.error.msg = <<97>>
    /\ hResp.status = 502
    /\ hResp.body.error = <<"HTTP client error: ", <<97>>>>

\* The wire key starts with the prefix.
HasPrefix(wire, prefix) == SubSeq(wire, 1, Len(prefix)) = prefix

\* The TTL the claim gives a message by the kind of its key.
TtlByKeyKind(msg) ==
    /\ HasPrefix(msg.key, PrefixSearch) => msg.ttl = 3600
    /\ HasPrefix(msg.key, PrefixAvail) => msg.ttl = 604800
    /\ HasPrefix(msg.key, PrefixImdb2wm) => msg.ttl = 2592000
    /\ \E prefix \in {PrefixSearch, PrefixAvail, PrefixImdb2wm} : HasPrefix(msg.key, prefix)

\* C30: every message the providers placed on the writer queue carries the
\* TTL of its key's kind: 3600 for a TitleSearch key, 604800 for an
\* Availability key, 2592000 for an ImdbToWatchmode key.
C30_TtlByKeyKind == \A i \in 1..Len(accepted) : TtlByKeyKind(accepted[i])

\* C30 witness: messages of the three kinds were placed on the queue, after
\* a search by one provider and an availability call by the other.
C30_Witness ==
    /\ \A prefix \in {PrefixSearch, PrefixAvail, PrefixImdb2wm} :
          \E i \in 1..Len(accepted) : HasPrefix(accepted[i].key, prefix)
    /\ Len(searched) = 1
    /\ searched[1].prov = "wm"
    /\ searched[1].upstream = 1
    /\ fProv = "sa"
    /\ fStage = "avail"
    /\ fpc = "done"

\* ------------------------------------------------------------------------
\* Claims on the writer's handling of its messages
\* ------------------------------------------------------------------------

\* This step is a write the remote store failed.
WriteFailsNow == Len(attempts') = Len(attempts) + 1 /\ ~attempts'[Len(attempts')].ok

\* A step of a writer that a failed write does not stop: after the failure
\* the task is back at the receive of the loop it was in with the channel
\* untouched, and when the task returns, every message the channel accepted
\* was handed to the store, failed ones or not.
ResilientStep ==
    /\ WriteFailsNow =>
          /\ wpc' = (IF wpc = "writing" THEN "select" ELSE "drain")
          /\ queue' = queue
          /\ accepted' = accepted
    /\ wpc' = "stopped" =>
          \A i \in 1..Len(accepted') :
              \E k \in 1..Len(attempts') : attempts'[k].id = accepted'[i].id

\* C34: a write the remote store fails never stops the writer, in normal
\* mode or in the shutdown drain: the task goes back to receiving, and the
\* messages queued behind the failed one are attempted before it returns.
C34_WriterResilience == [][ResilientStep]_vars

\* C34 witness: the first write failed in normal mode, the second failed in
\* the drain, a third message behind them was attempted, and the task
\* returned.
C34_Witness ==
    /\ wpc = "stopped"
    /\ Len(attempts) = 3
    /\ ~attempts[1].ok
    /\ ~attempts[2].ok
    /\ atSignal = 1
    /\ Len(accepted) = 3

\* Number of write attempts made for message id.
AttemptsOf(id) == Cardinality({k \in 1..Len(attempts) : attempts[k].id = id})

\* C35: a message the channel accepted is handed to the remote store at most
\* once, whether its write succeeds or fails, and exactly once by the time
\* the writer task returns.
C35_OneAttemptEach ==
    \A i \in 1..Len(accepted) :
        /\ AttemptsOf(accepted[i].id) <= 1
        /\ wpc = "stopped" => AttemptsOf(accepted[i].id) = 1

\* C35 witness: a write failed in normal mode and one failed in the drain,
\* the task returned, and each message has its one attempt.
C35_Witness ==
    /\ wpc = "stopped"
    /\ Len(accepted) = 2
    /\ Len(attempts) = 2
    /\ ~attempts[1].ok
    /\ ~attempts[2].ok
    /\ atSignal = 1
    /\ store[accepted[1].key].ttl = 0

\* Message id was accepted by the channel after the handle was dropped.
AcceptedAfterDrop(id) ==
    /\ handle = "dropped"
    /\ id \notin beforeSig
    /\ \E i \in 1..Len(accepted) : accepted[i].id = id

\* C36: with the handle dropped and shutdown() never called, the writer task
\* is alive for as long as a Cache clone exists, and every message the
\* channel accepts after the drop is handed to the remote store (the
\* writer is scheduled fairly).
C36_WriterOutlivesHandle ==
    /\ []((handle = "dropped" /\ senders > 0) => WriterAlive)
    /\ \A id \in 1..MaxMsgs : AcceptedAfterDrop(id) ~> Attempted(id)

\* C36 witness: the handle was dropped, the task took the closed shutdown
\* channel's branch, and a value enqueued after that is in the store.
C36_Witness ==
    /\ handle = "dropped"
    /\ wpc = "drain"
    /\ beforeSig = {}
    /\ Len(accepted) = 1
    /\ Len(attempts) = 1
    /\ attempts[1].ok
    /\ store[accepted[1].key].value = accepted[1].value
    /\ senders > 0

\* The weights at which the solver produced a service set for the first
\* time.
FirstOccurrences ==
    {i \in 1..Len(optPicks) :
        /\ optPicks[i].ok
        /\ \A j \in 1..(i - 1) : ~(optPicks[j].ok /\ optPicks[j].sel = optPicks[i].sel)}

\* The k-th of them in ascending order.
KthFirstOccurrence(k) ==
    CHOOSE i \in FirstOccurrences :
        Cardinality({j \in FirstOccurrences : j < i}) = k - 1

\* C33: the configurations of a solved request are the service sets the
\* solver produced at the ascending weights 0.1, 1.0, 3.0, 10.0, 100.0
\* (here in hundredths of a cent per title), each at the place of its first
\* occurrence and repeats dropped: at most five.
C33_SpectrumOrder ==
    Solved =>
        /\ Len(Weights) = 5
        /\ \A i \in 1..4 : Weights[i] < Weights[i + 1]
        /\ Len(optResp.configurations) = Cardinality(FirstOccurrences)
        /\ Len(optResp.configurations) <= 5
        /\ \A k \in 1..Len(optResp.configurations) :
              ServiceIdSet(optResp.configurations[k]) = optPicks[KthFirstOccurrence(k)].sel

\* C33 witness: the cheap set at the two lowest weights, a second set at the
\* third, the first one again at the fourth; the response lists the cheap
\* set, then the second.
C33_Witness ==
    /\ Solved
    /\ optPicks[1].sel = optPicks[2].sel
    /\ optPicks[3].sel /= optPicks[1].sel
    /\ optPicks[4].sel = optPicks[1].sel
    /\ Len(optResp.configurations) = 2
    /\ ServiceIdSet(optResp.configurations[1]) = optPicks[1].sel
    /\ ServiceIdSet(optResp.configurations[2]) = optPicks[3].sel

\* ------------------------------------------------------------------------
\* Claims on failures of the compute step
\* ------------------------------------------------------------------------

\* The block of the cached! in hand fails in this step.
ComputeFailsNow ==
    /\ fProv \in {"sa", "wm"}
    /\ fpc = "compute"
    /\ fpc' = "done"
    /\ fResult'.status /= "Ok"

\* The store and the channel hold nothing for the key that they did not hold
\* before the step.
NothingNewFor(wire) ==
    /\ store'[wire] = store[wire]
    /\ SelectSeq(accepted', LAMBDA msg : msg.key = wire)
          = SelectSeq(accepted, LAMBDA msg : msg.key = wire)
    /\ SelectSeq(queue', LAMBDA msg : msg.key = wire)
          = SelectSeq(queue, LAMBDA msg : msg.key = wire)

\* A step of a call whose compute failure is not cached.
FailureNotCachedStep ==
    ComputeFailsNow =>
        /\ fResult'.status = "Err"
        /\ fResult'.kind \in {"ExternalApi", "HttpClient"}
        /\ nextId' = nextId
        /\ NothingNewFor(DisplayKey(fKey))

\* C37: when the block of a cached! fails, the call returns the error and
\* nothing is enqueued or stored for its key, so the failure cannot answer
\* a later call with that key.
C37_FailureNotCached == [][FailureNotCachedStep]_vars

\* C37 witness: the id resolution found no Watchmode id; the call returned
\* the error, the channel never saw a message, the key is absent.
C37_Witness ==
    /\ fProv = "wm"
    /\ fStage = "resolve"
    /\ fpc = "done"
    /\ fResult = Err("ExternalApi")
    /\ \E i \in 1..Len(fTrace) : fTrace[i].op = "compute" /\ fTrace[i].res = "err"
    /\ nextId = 0
    /\ store[DisplayKey(fKey)].ttl = 0

\* ------------------------------------------------------------------------
\* Claims on the order of a batch
\* ------------------------------------------------------------------------

\* The k-th worker that succeeded, counted in the order of the input list.
KthSucceeded(k) ==
    CHOOSE i \in Succeeded : Cardinality({j \in Succeeded : j < i}) = k - 1

\* C38: an Ok batch lists the values of the workers that succeeded in the
\* order of their ids in the input list, whatever order they ended in.
C38_ResultsInInputOrder ==
    (Returned /\ bResp.status = "Ok") =>
        /\ Len(bResp.list) = Cardinality(Succeeded)
        /\ \A k \in 1..Len(bResp.list) : bResp.list[k] = bTasks[KthSucceeded(k)].value

\* C38 witness: the worker of the second id ended before the worker of the
\* first with another value, both succeeded, and the list has the first
\* id's value first.
C38_Witness ==
    /\ Returned
    /\ bResp.status = "Ok"
    /\ Len(bFinished) >= 2
    /\ bFinished[1] = 2
    /\ bTasks[1].state = "ok"
    /\ bTasks[2].state = "ok"
    /\ bTasks[1].value /= bTasks[2].value
    /\ bResp.list[1] = bTasks[1].value
    /\ bResp.list[2] = bTasks[2].value

\* ------------------------------------------------------------------------
\* Claims on the in-memory API
\* ------------------------------------------------------------------------

\* The entries of the preferences for a title.
EntriesOf(t) == {i \in 1..Len(gPrefs.titles) : gPrefs.titles[i].title_id = t}

\* The add_title calls made for a title.
AddsOf(t) == {k \in 1..Len(gAdds) : gAdds[k].title_id = t}

\* C31: after any sequence of add_title calls on fresh preferences, a title
\* has one entry if it was ever added and none otherwise, the entry has the
\* priority of the last call for it, and no title is both in
\* must_have_titles() and in nice_to_have_titles().
C31_AddTitleIsUpsert ==
    /\ \A t \in PrefTitles :
          /\ Cardinality(EntriesOf(t)) = (IF AddsOf(t) = {} THEN 0 ELSE 1)
          /\ \A i \in EntriesOf(t) :
                \E k \in AddsOf(t) :
                    /\ \A j \in AddsOf(t) : j <= k
                    /\ gPrefs.titles[i].priority = gAdds[k].priority
    /\ Range(MustHaveTitles(gPrefs)) \cap Range(NiceToHaveTitles(gPrefs)) = {}

\* C31 witness: the first title was added as nice-to-have, a second title
\* was added, then the first was added again as must-have: two entries, the
\* first title still in front and now must-have.
C31_Witness ==
    /\ gAdds = <<[title_id |-> 1, priority |-> "NiceToHave"],
                 [title_id |-> 2, priority |-> "NiceToHave"],
                 [title_id |-> 1, priority |-> "MustHave"]>>
    /\ Len(gPrefs.titles) = 2
    /\ gPrefs.titles[1] = [title_id |-> 1, priority |-> "MustHave"]
    /\ MustHaveTitles(gPrefs) = <<1>>
    /\ NiceToHaveTitles(gPrefs) = <<2>>

\* The titles the preferences hold with a priority.
PrefTitlesWith(priority) ==
    {gPrefs.titles[i].title_id :
        i \in {j \in 1..Len(gPrefs.titles) : gPrefs.titles[j].priority = priority}}

\* Title t is available on a service of the list whose id is in ids.
AvailableAmong(t, ids) ==
    \E i \in 1..Len(gServices) :
        gServices[i].id \in ids /\ t \in gServices[i].available_titles

\* C32: when the greedy optimize returns Ok, every must-have title some
\* given service has is in must_have_covered, and every title reported as
\* covered is available on a recommended service.
C32_GreedyCoversMustHave ==
    gResult.status = "Ok" =>
        /\ \A t \in PrefTitlesWith("MustHave") :
              AvailableAmong(t, GreedyServiceIds) => t \in gResult.must_have_covered
        /\ \A t \in gResult.must_have_covered \cup gResult.nice_to_have_covered :
              AvailableAmong(t, gResult.recommended_services)

\* C32 witness: two must-have titles, each on one service only; both
\* services are recommended and both titles covered.
C32_Witness ==
    /\ gResult.status = "Ok"
    /\ PrefTitlesWith("MustHave") = {1, 2}
    /\ Len(gServices) = 2
    /\ gServices[1].available_titles = {1}
    /\ gServices[2].available_titles = {2}
    /\ gPrefs.current_subscriptions = <<>>
    /\ gResult.recommended_services = {gServices[1].id, gServices[2].id}
    /\ gResult.must_have_covered = {1, 2}

\* Subscribing to every given service covers each must-have title that is
\* available on a given service.
CoverableTogether ==
    LET all == UNION {gServices[i].available_titles : i \in 1..Len(gServices)}
    IN \A t \in PrefTitlesWith("MustHave") :
           AvailableAmong(t, GreedyServiceIds) => t \in all

\* C40: the greedy optimize returns NoSolution only when the given services
\* cannot together cover the must-have titles available on them; a service
\* that costs nothing and has no uncovered must-have title does not make it
\* fail.
C40_NoSolutionOnlyIfUncoverable ==
    gResult.status = "NoSolution" => ~CoverableTogether

\* ------------------------------------------------------------------------
\* Claims on the quota
\* ------------------------------------------------------------------------

\* C39: however many workers of the quota-checking availability service run
\* at once, the month's usage counter never exceeds MONTHLY_QUOTA.
C39_QuotaNeverExceeded == apiUsage <= MONTHLY_QUOTA

====
